---- MODULE Spec2Model ----
(***************************************************************************)
(* Model of the botanu SDK run-scope orchestration:                         *)
(*   - RunContext (models/run_context.py): factory, retry genealogy,       *)
(*     completion, carrier codec;                                          *)
(*   - the run scope (sdk/decorators.py): botanu_workflow sync and async   *)
(*     wrappers and the run_botanu context manager, on top of an           *)
(*     OpenTelemetry-style context (carrier + current span);               *)
(*   - span helpers (sdk/span_helpers.py) and the attempt ledger           *)
(*     (tracking/ledger.py) as far as application code inside a scope      *)
(*     uses them;                                                          *)
(*   - the span enricher (processors/enricher.py);                         *)
(*   - the bootstrap (sdk/bootstrap.py), the AttemptLedger and the global  *)
(*     ledger (tracking/ledger.py), the middleware (sdk/middleware.py);    *)
(*   - the identity generator (generate_run_id), the tracker scopes        *)
(*     (tracking/llm.py) with the retry callbacks                          *)
(*     (integrations/tenacity.py), the botanu_outcome decorator.           *)
(* Specifications: Spec (run scopes of one execution context), SpecConc    *)
(* (two concurrent contexts), SpecRC (a retry chain), SpecQuery            *)
(* (cancellation queries), SpecCodec and SpecDecode (the carrier codec),   *)
(* SpecEnrich and SpecEnrichFault (the enricher), SpecBoot (enable and     *)
(* disable), SpecLedger (one ledger), SpecGlobal and SpecGlobalConc (the   *)
(* global ledger), SpecMiddleware (request handling), SpecIds (identifier *)
(* generation), SpecTrack (tracker scopes and retry loops), SpecOutcome    *)
(* (calls of botanu_outcome-wrapped functions).                            *)
(***************************************************************************)
EXTENDS Integers, Sequences, FiniteSets, TLC

\* ------------------------------------------------------------------------
\* Bounds of the model
\* ------------------------------------------------------------------------
MaxDepth == 2
MaxBodyOps == 1
MaxChain == 3
MaxTime == 1
MaxCalls == 3

\* ------------------------------------------------------------------------
\* Values
\* ------------------------------------------------------------------------
\* Python's None for optional string fields.
None == "None"

\* Optional non-string values (deadline, outcome, saved contexts) are the
\* empty sequence when absent and a one-element sequence when present.
Absent == <<>>
Some(v) == <<v>>

\* Python truthiness of an optional string: None and "" are falsy.
Truthy(s) == s # None /\ s # ""

\* x or y
Or(x, y) == IF Truthy(x) THEN x ELSE y

\* dict helpers: a dict is a function whose domain is its key set.
EmptyDict == [k \in {} |-> None]
Put(d, k, v) == [x \in (DOMAIN d) \cup {k} |-> IF x = k THEN v ELSE d[x]]
Has(d, k) == k \in DOMAIN d
\* dict.get(k) for string-valued dicts
Get(d, k) == IF k \in DOMAIN d THEN d[k] ELSE None
\* dict.get(k, default)
GetOr(d, k, default) == IF k \in DOMAIN d THEN d[k] ELSE default
\* d1 updated with every entry of d2
Update(d1, d2) == [x \in (DOMAIN d1) \cup (DOMAIN d2) |-> IF x \in DOMAIN d2 THEN d2[x] ELSE d1[x]]

\* str(n) for a natural number
Digit == <<"0", "1", "2", "3", "4", "5", "6", "7", "8", "9">>
RECURSIVE DecStr(_)
DecStr(n) == IF n < 10 THEN Digit[n + 1] ELSE DecStr(n \div 10) \o Digit[(n % 10) + 1]

\* The numbers whose spellings occur in carrier texts: attempt numbers and
\* deadlines in whole seconds.
Numerals == 0..(MaxChain + 2)

\* Spellings of the natural number n that int() accepts: plain decimal, with
\* a plus sign, with surrounding white space.
IntSpellings(n) == {DecStr(n), "+" \o DecStr(n), " " \o DecStr(n) \o " "}

\* An int() that takes every text for the number 1.
int_lenient(s) == Some(1)

\* int(s) for a str: the number, or Absent where Python raises ValueError.
\* Exact for the spellings of Numerals and their negatives and for texts
\* that are no number at all.
int(s) ==
    IF \E n \in Numerals : s \in IntSpellings(n)
    THEN Some(CHOOSE n \in Numerals : s \in IntSpellings(n))
    ELSE IF \E n \in Numerals : s = "-" \o DecStr(n)
         THEN Some(0 - (CHOOSE n \in Numerals : s = "-" \o DecStr(n)))
         ELSE Absent

\* float(s) for a str holding a time in milliseconds: Absent where Python
\* raises ValueError. Python also reads the non-finite values "nan", "inf"
\* and "infinity" in any letter case. Exact for whole seconds of Numerals.
float(s) ==
    IF \E n \in Numerals : s = DecStr(n * 1000)
    THEN Some([finite |-> TRUE, ms |-> 1000 * (CHOOSE n \in Numerals : s = DecStr(n * 1000)), text |-> s])
    ELSE IF s \in {"nan", "NaN", "inf", "Infinity"}
         THEN Some([finite |-> FALSE, ms |-> 0, text |-> s])
         ELSE Absent

\* str.lower() on the texts the cancelled key carries
lower(s) == IF s \in {"True", "TRUE"} THEN "true" ELSE s

\* Identifiers generate_run_id can return; the value is fixed by the clock and
\* by random bytes, neither of which the caller controls.
RunIds == {"r1", "r2", "r3", "r4"}
\* The run identifier of a run propagated from an upstream process.
UpstreamRunId == "r0"

\* RunStatus
SUCCESS == "success"
FAILURE == "failure"
PARTIAL == "partial"
TIMEOUT == "timeout"
CANCELED == "canceled"
RunStatus == {SUCCESS, FAILURE, PARTIAL, TIMEOUT, CANCELED}

\* VALID_OUTCOME_STATUSES of span_helpers
VALID_OUTCOME_STATUSES == {"success", "partial", "failed", "timeout", "canceled", "abandoned"}

\* Classes of errors a wrapped callable raises (subclasses of Exception).
ErrorClasses == {"ValueError", "RuntimeError"}
\* asyncio.CancelledError derives from BaseException, not from Exception.
CancelledError == "CancelledError"

\* ------------------------------------------------------------------------
\* Process environment (os.environ)
\* ------------------------------------------------------------------------
VARIABLE osenv

\* os.getenv(name): None when unset
getenv(name) == Get(osenv, name)

\* ------------------------------------------------------------------------
\* RunContext (models/run_context.py)
\* ------------------------------------------------------------------------
RunOutcome(status, reason_code, error_class, value_type, value_amount, confidence) ==
    [status |-> status, reason_code |-> reason_code, error_class |-> error_class,
     value_type |-> value_type, value_amount |-> value_amount, confidence |-> confidence]

\* The dataclass constructor followed by __post_init__.
post_init(f) ==
    [f EXCEPT !.root_run_id = IF f.root_run_id = None THEN f.run_id ELSE f.root_run_id]

\* Default keyword arguments of RunContext.create.
create_defaults ==
    [workflow |-> "W", event_id |-> "e1", customer_id |-> "c1",
     workflow_version |-> None, environment |-> None, tenant_id |-> None,
     parent_run_id |-> None, root_run_id |-> None, attempt |-> 1,
     retry_of_run_id |-> None, deadline_seconds |-> Absent]

\* RunContext.create(**a); run_id is what generate_run_id returned and t the
\* clock reading.
create(a, run_id, t) ==
    LET env == Or(a.environment,
                  Or(getenv("BOTANU_ENVIRONMENT"),
                     Or(getenv("DEPLOYMENT_ENVIRONMENT"), "production")))
        deadline == IF a.deadline_seconds # Absent
                    THEN Some(t + a.deadline_seconds[1]) ELSE Absent
    IN post_init(
        [run_id |-> run_id,
         workflow |-> a.workflow,
         event_id |-> a.event_id,
         customer_id |-> a.customer_id,
         environment |-> env,
         workflow_version |-> a.workflow_version,
         tenant_id |-> a.tenant_id,
         parent_run_id |-> a.parent_run_id,
         root_run_id |-> Or(a.root_run_id, run_id),
         attempt |-> a.attempt,
         retry_of_run_id |-> a.retry_of_run_id,
         start_time |-> t,
         deadline |-> deadline,
         cancelled |-> FALSE,
         cancelled_at |-> Absent,
         outcome |-> Absent])

\* A create_retry that forgets to count the attempt and to link the chain.
create_retry_no_genealogy(previous, run_id, t) ==
    create([create_defaults EXCEPT
              !.workflow = previous.workflow,
              !.event_id = previous.event_id,
              !.customer_id = previous.customer_id,
              !.workflow_version = previous.workflow_version,
              !.environment = previous.environment,
              !.tenant_id = previous.tenant_id,
              !.parent_run_id = previous.parent_run_id,
              !.attempt = previous.attempt,
              !.retry_of_run_id = previous.retry_of_run_id],
           run_id, t)

\* A create_retry that carries deadline, cancellation and outcome over.
create_retry_inheriting(previous, run_id, t) ==
    [create_retry_no_genealogy(previous, run_id, t) EXCEPT
        !.root_run_id = previous.root_run_id,
        !.attempt = previous.attempt + 1,
        !.retry_of_run_id = previous.run_id,
        !.deadline = previous.deadline,
        !.cancelled = previous.cancelled,
        !.cancelled_at = previous.cancelled_at,
        !.outcome = previous.outcome]

\* RunContext.create_retry(previous)
create_retry(previous, run_id, t) ==
    create([create_defaults EXCEPT
              !.workflow = previous.workflow,
              !.event_id = previous.event_id,
              !.customer_id = previous.customer_id,
              !.workflow_version = previous.workflow_version,
              !.environment = previous.environment,
              !.tenant_id = previous.tenant_id,
              !.parent_run_id = previous.parent_run_id,
              !.root_run_id = previous.root_run_id,
              !.attempt = previous.attempt + 1,
              !.retry_of_run_id = previous.run_id],
           run_id, t)

\* RunContext.complete(status, error_class=..., value_type=..., value_amount=...)
complete(rc, status, error_class, value_type, value_amount) ==
    [rc EXCEPT !.outcome = Some(RunOutcome(status, None, error_class, value_type, value_amount, Absent))]

\* RunContext.request_cancellation()
request_cancellation(rc, t) ==
    [rc EXCEPT !.cancelled = TRUE, !.cancelled_at = Some(t)]

\* An is_cancelled that looks at the flag only.
is_cancelled_flag_only(rc, t) == rc.cancelled

\* RunContext.is_past_deadline() and is_cancelled() at clock reading t
is_past_deadline(rc, t) == IF rc.deadline = Absent THEN FALSE ELSE t > rc.deadline[1]
is_cancelled(rc, t) == rc.cancelled \/ is_past_deadline(rc, t)

\* RunContext.duration_ms at clock reading t
duration_ms(rc, t) == IF rc.outcome = Absent THEN Absent ELSE Some((t - rc.start_time) * 1000)

\* A to_baggage_dict that writes the four lean keys whatever the mode.
to_baggage_dict_lean(rc, lean_mode) ==
    [k \in {"botanu.run_id", "botanu.workflow", "botanu.event_id", "botanu.customer_id"} |->
        CASE k = "botanu.run_id" -> rc.run_id
          [] k = "botanu.workflow" -> rc.workflow
          [] k = "botanu.event_id" -> rc.event_id
          [] OTHER -> rc.customer_id]

\* RunContext.to_baggage_dict(lean_mode); lean_mode is Absent for None.
to_baggage_dict(rc, lean_mode) ==
    LET lean == IF lean_mode = Absent
                THEN (IF Has(osenv, "BOTANU_PROPAGATION_MODE")
                      THEN osenv["BOTANU_PROPAGATION_MODE"] ELSE "lean") # "full"
                ELSE lean_mode[1]
        b0 == [k \in {"botanu.run_id", "botanu.workflow", "botanu.event_id", "botanu.customer_id"} |->
                 CASE k = "botanu.run_id" -> rc.run_id
                   [] k = "botanu.workflow" -> rc.workflow
                   [] k = "botanu.event_id" -> rc.event_id
                   [] OTHER -> rc.customer_id]
        b1 == Put(b0, "botanu.environment", rc.environment)
        b2 == IF Truthy(rc.tenant_id) THEN Put(b1, "botanu.tenant_id", rc.tenant_id) ELSE b1
        b3 == IF Truthy(rc.parent_run_id) THEN Put(b2, "botanu.parent_run_id", rc.parent_run_id) ELSE b2
        b4 == IF Truthy(rc.root_run_id) /\ rc.root_run_id # rc.run_id
              THEN Put(b3, "botanu.root_run_id", rc.root_run_id) ELSE b3
        b5 == IF rc.attempt > 1 THEN Put(b4, "botanu.attempt", DecStr(rc.attempt)) ELSE b4
        b6 == IF Truthy(rc.retry_of_run_id) THEN Put(b5, "botanu.retry_of_run_id", rc.retry_of_run_id) ELSE b5
        b7 == IF rc.deadline # Absent THEN Put(b6, "botanu.deadline", DecStr(rc.deadline[1] * 1000)) ELSE b6
        b8 == IF rc.cancelled THEN Put(b7, "botanu.cancelled", "true") ELSE b7
    IN IF lean THEN b0 ELSE b8

\* A from_baggage that decodes whatever the carrier holds.
from_baggage_unguarded(b, t) ==
    [raised |-> None,
     value |-> Some(post_init(
        [run_id |-> Get(b, "botanu.run_id"), workflow |-> Get(b, "botanu.workflow"),
         event_id |-> GetOr(b, "botanu.event_id", ""), customer_id |-> GetOr(b, "botanu.customer_id", ""),
         environment |-> GetOr(b, "botanu.environment", "unknown"), workflow_version |-> None,
         tenant_id |-> Get(b, "botanu.tenant_id"), parent_run_id |-> Get(b, "botanu.parent_run_id"),
         root_run_id |-> Or(Get(b, "botanu.root_run_id"), Get(b, "botanu.run_id")),
         attempt |-> 1, retry_of_run_id |-> Get(b, "botanu.retry_of_run_id"),
         start_time |-> t, deadline |-> Absent, cancelled |-> FALSE,
         cancelled_at |-> Absent, outcome |-> Absent]))]

\* RunContext.from_baggage(baggage) at clock reading t: whether the call
\* raised, and the value it returned (Absent for None).
from_baggage(b, t) ==
    LET run_id == Get(b, "botanu.run_id")
        workflow == Get(b, "botanu.workflow")
        attempt_str == GetOr(b, "botanu.attempt", "1")
        \* try: int(attempt_str) / except ValueError: attempt = 1
        attempt == IF int(attempt_str) = Absent THEN 1 ELSE int(attempt_str)[1]
        deadline_str == Get(b, "botanu.deadline")
        \* if deadline_str: try: float(deadline_str) / 1000.0 / except ValueError: pass
        deadline == IF ~Truthy(deadline_str) \/ float(deadline_str) = Absent
                    THEN Absent
                    ELSE IF float(deadline_str)[1].finite
                         THEN Some(float(deadline_str)[1].ms \div 1000)
                         ELSE Some(float(deadline_str)[1].text)
        cancelled == lower(GetOr(b, "botanu.cancelled", "")) = "true"
    IN IF ~Truthy(run_id) \/ ~Truthy(workflow)
       THEN [raised |-> None, value |-> Absent]
       ELSE [raised |-> None,
             value |-> Some(post_init(
                [run_id |-> run_id,
                 workflow |-> workflow,
                 event_id |-> GetOr(b, "botanu.event_id", ""),
                 customer_id |-> GetOr(b, "botanu.customer_id", ""),
                 environment |-> GetOr(b, "botanu.environment", "unknown"),
                 workflow_version |-> None,
                 tenant_id |-> Get(b, "botanu.tenant_id"),
                 parent_run_id |-> Get(b, "botanu.parent_run_id"),
                 root_run_id |-> Or(Get(b, "botanu.root_run_id"), run_id),
                 attempt |-> attempt,
                 retry_of_run_id |-> Get(b, "botanu.retry_of_run_id"),
                 start_time |-> t,
                 deadline |-> deadline,
                 cancelled |-> cancelled,
                 cancelled_at |-> Absent,
                 outcome |-> Absent]))]

\* RunContext.to_span_attributes() at clock reading t
to_span_attributes(rc, t) ==
    LET a0 == [k \in {"botanu.run_id", "botanu.workflow", "botanu.event_id", "botanu.customer_id",
                      "botanu.environment", "botanu.run.start_time"} |->
                 CASE k = "botanu.run_id" -> rc.run_id
                   [] k = "botanu.workflow" -> rc.workflow
                   [] k = "botanu.event_id" -> rc.event_id
                   [] k = "botanu.customer_id" -> rc.customer_id
                   [] k = "botanu.environment" -> rc.environment
                   [] OTHER -> rc.start_time]
        a1 == IF Truthy(rc.workflow_version) THEN Put(a0, "botanu.workflow.version", rc.workflow_version) ELSE a0
        a2 == IF Truthy(rc.tenant_id) THEN Put(a1, "botanu.tenant_id", rc.tenant_id) ELSE a1
        a3 == IF Truthy(rc.parent_run_id) THEN Put(a2, "botanu.parent_run_id", rc.parent_run_id) ELSE a2
        a4 == Put(a3, "botanu.root_run_id", Or(rc.root_run_id, rc.run_id))
        a5 == Put(a4, "botanu.attempt", rc.attempt)
        a6 == IF Truthy(rc.retry_of_run_id) THEN Put(a5, "botanu.retry_of_run_id", rc.retry_of_run_id) ELSE a5
        a7 == IF rc.deadline # Absent THEN Put(a6, "botanu.run.deadline_ts", rc.deadline[1]) ELSE a6
        a8 == IF rc.cancelled
              THEN (IF rc.cancelled_at # Absent /\ rc.cancelled_at # Some(0)
                    THEN Put(Put(a7, "botanu.run.cancelled", TRUE), "botanu.run.cancelled_at", rc.cancelled_at[1])
                    ELSE Put(a7, "botanu.run.cancelled", TRUE))
              ELSE a7
        o == rc.outcome[1]
        a9 == Put(a8, "botanu.outcome.status", o.status)
        a10 == IF Truthy(o.reason_code) THEN Put(a9, "botanu.outcome.reason_code", o.reason_code) ELSE a9
        a11 == IF Truthy(o.error_class) THEN Put(a10, "botanu.outcome.error_class", o.error_class) ELSE a10
        a12 == IF Truthy(o.value_type) THEN Put(a11, "botanu.outcome.value_type", o.value_type) ELSE a11
        a13 == IF o.value_amount # Absent THEN Put(a12, "botanu.outcome.value_amount", o.value_amount[1]) ELSE a12
        a14 == IF o.confidence # Absent THEN Put(a13, "botanu.outcome.confidence", o.confidence[1]) ELSE a13
        a15 == Put(a14, "botanu.run.duration_ms", duration_ms(rc, t)[1])
    IN IF rc.outcome = Absent THEN a8 ELSE a15


\* ------------------------------------------------------------------------
\* OpenTelemetry context: the ambient carrier and the current span of one
\* execution context (thread or task)
\* ------------------------------------------------------------------------
Contexts == {"main"}

VARIABLES
    now,        \* clock reading (time.time(), datetime.now), in seconds
    ambient,    \* per execution context: the current Context value
    stack,      \* per execution context: the run scopes entered and not yet left
    ledger,     \* the global AttemptLedger and the records handed to its sink
    bodyOps,    \* number of operations application code has done inside scopes
    chain,      \* a retry chain of RunContexts built with create / create_retry
    headArgs,   \* the arguments chain[1] was created with
    attached,   \* per execution context: carrier tokens attached and not yet detached
    encoded,    \* the last to_baggage_dict call: its context and lean_mode argument
    baggage,    \* a carrier dict: what to_baggage_dict returned or a peer sent
    decoded,    \* the last from_baggage call: whether it raised and what it returned
    queried,    \* what the last is_cancelled() call returned
    enriched,   \* the last span RunContextEnricher.on_start was called for
    boot,       \* sdk/bootstrap.py: _lock, _initialized, _current_config, the tracer provider
    registry,   \* tracking/ledger.py: _global_ledger, the lru_cache, the ledgers made
    lcall,      \* the last call made on an AttemptLedger and how it returned
    served,     \* the request BotanuMiddleware.dispatch is handling or handled last
    track,      \* tracking/llm.py: the retry attempt variable, the tracker scope open or closed last, the counters
    decorated,  \* the call of a botanu_outcome-wrapped function in progress or returned last
    generated   \* the run identifiers generate_run_id returned, with the clock readings

\* State of the process-wide parts: bootstrap, global ledger, middleware.
procVars == <<boot, registry, lcall, served>>

\* State of the tracker scopes, the outcome decorator and the identifier
\* generator.
helperVars == <<track, decorated, generated>>

\* State of the calls made on RunContext and on the enricher directly, and
\* of the process-wide parts.
unitVars == <<encoded, baggage, decoded, queried, enriched, procVars, helperVars>>

vars == <<osenv, now, ambient, stack, ledger, bodyOps, chain, headArgs, attached, unitVars>>

EmptyContext == [baggage |-> EmptyDict, span |-> 0]

\* The context of a request whose baggage carries an upstream run (lean keys).
UpstreamContext ==
    [baggage |-> [k \in {"botanu.run_id", "botanu.workflow", "botanu.event_id", "botanu.customer_id"} |->
                    CASE k = "botanu.run_id" -> UpstreamRunId
                      [] k = "botanu.workflow" -> "Up"
                      [] k = "botanu.event_id" -> "e0"
                      [] OTHER -> "c0"],
     span |-> 0]

\* sdk/context.py get_baggage(key) against the context value cv
get_baggage(cv, key) == Get(cv.baggage, key)

\* A parent lookup that never finds the ambient run.
get_parent_run_id_blind(cv) == None

\* decorators._get_parent_run_id()
get_parent_run_id(cv) == get_baggage(cv, "botanu.run_id")

\* A carrier update that writes no key.
set_baggage_none(cv, d) == cv

\* otel_baggage.set_baggage(key, value, context=ctx) for every entry of d
set_baggage_all(cv, d) == [cv EXCEPT !.baggage = Update(cv.baggage, d)]

\* A detach that leaves the attached context in place.
detach_leaky(current, token) == current

\* opentelemetry.context.detach(token): the context that was current when the
\* token was made becomes current again.
detach(current, token) == token

\* A carrier attach done key by key: one token for every encoded key.
entry_tokens_per_key(cv, d) == [i \in 1..Cardinality(DOMAIN d) |-> cv]

\* The tokens a scope entry makes for the carrier d: the loop over d only
\* builds the composite context, attach(ctx) runs once and its token saves
\* the context cv that was current.
entry_tokens(cv, d) == <<cv>>

\* The outstanding tokens after detach(token): the newest token goes when it
\* is the one detached; a token that is not the newest is reported and stays.
release(tokens, token) ==
    IF tokens # <<>> /\ tokens[Len(tokens)] = token
    THEN SubSeq(tokens, 1, Len(tokens) - 1)
    ELSE tokens

\* ------------------------------------------------------------------------
\* Spans
\* ------------------------------------------------------------------------
NewSpan == [attributes |-> EmptyDict, events |-> <<>>, status |-> "UNSET", ended |-> FALSE]

set_attribute(span, k, v) == [span EXCEPT !.attributes = Put(span.attributes, k, v)]
set_attributes(span, d) == [span EXCEPT !.attributes = Update(span.attributes, d)]
add_event(span, name, attrs) == [span EXCEPT !.events = Append(span.events, [name |-> name, attributes |-> attrs])]
set_status(span, st) == [span EXCEPT !.status = st]
end_span(span) == [span EXCEPT !.ended = TRUE]

\* A completion that puts no marker on the span.
emit_run_completed_silent(span, run_ctx, status, error_class, t) ==
    set_attribute(set_attribute(span, "botanu.outcome.status", status),
                  "botanu.run.duration_ms", (t - run_ctx.start_time) * 1000)

\* decorators._emit_run_completed(span, run_ctx, status, error_class)
emit_run_completed(span, run_ctx, status, error_class, t) ==
    LET dur == (t - run_ctx.start_time) * 1000
        e0 == [k \in {"run_id", "workflow", "status", "duration_ms"} |->
                 CASE k = "run_id" -> run_ctx.run_id
                   [] k = "workflow" -> run_ctx.workflow
                   [] k = "status" -> status
                   [] OTHER -> dur]
        e1 == IF Truthy(error_class) THEN Put(e0, "error_class", error_class) ELSE e0
        e2 == IF run_ctx.outcome # Absent /\ Truthy(run_ctx.outcome[1].value_type)
              THEN Put(e1, "value_type", run_ctx.outcome[1].value_type) ELSE e1
        e3 == IF run_ctx.outcome # Absent /\ run_ctx.outcome[1].value_amount # Absent
              THEN Put(e2, "value_amount", run_ctx.outcome[1].value_amount[1]) ELSE e2
        s1 == add_event(span, "botanu.run.completed", e3)
        s2 == set_attribute(s1, "botanu.outcome.status", status)
    IN set_attribute(s2, "botanu.run.duration_ms", dur)


\* ------------------------------------------------------------------------
\* Span helpers and ledger, as called by application code inside a scope
\* ------------------------------------------------------------------------
\* span_helpers.emit_outcome(status) on the span `span` (status is valid)
emit_outcome(span, status) ==
    add_event(set_attribute(span, "botanu.outcome", status),
              "botanu.outcome_emitted", [k \in {"status"} |-> status])

\* AttemptLedger._emit for an attempt.ended record, as reached through
\* record_attempt_ended -> get_ledger().attempt_ended
attempt_ended(l, run_id, status, error_class) ==
    IF ~l.initialized
    THEN l
    ELSE [l EXCEPT !.sink = Append(l.sink,
            [name |-> "attempt.ended", run_id |-> run_id, status |-> status, error_class |-> error_class])]

\* ------------------------------------------------------------------------
\* Run scopes (sdk/decorators.py)
\* ------------------------------------------------------------------------
\* Run identifiers of the scopes that have not been left, and of the ambient
\* runs, in every execution context of the process.
LiveRunIds(c) ==
    UNION {{stack[d][i].run_ctx[1].run_id : i \in {j \in DOMAIN stack[d] : stack[d][j].run_ctx # Absent}}
              \cup {get_baggage(ambient[d], "botanu.run_id")} : d \in DOMAIN stack}

\* generate_run_id() as the scopes see it: an identifier no live run has (48
\* bits of clock and 74 random bits make a repeat practically impossible).
FreshRunId(c) == CHOOSE r \in RunIds : r \notin LiveRunIds(c)

\* "sync" and "async" are the two wrappers of botanu_workflow, "cm" is run_botanu.
Forms == {"sync", "async", "cm"}

\* event_id / customer_id given to a scope: a static string, or a resolver
\* called with the wrapped call's arguments that returns the string.
IdKinds == {"static", "resolver"}
IdInputs == {<<"e1", "c1">>, <<"", "c1">>}

\* Statuses application code sets explicitly inside a scope.
EmittedStatuses == {"failed"}
CompletedStatuses == {PARTIAL}

Top(c) == stack[c][Len(stack[c])]
Running(c) == IF stack[c] = <<>> THEN FALSE ELSE Top(c).pc = "Running"
\* the caller of a new scope is executing: no scope, or the body of the top one
CanCall(c) == IF stack[c] = <<>> THEN TRUE ELSE Top(c).pc = "Running"
ReplaceTop(c, f) == [stack EXCEPT ![c] = [stack[c] EXCEPT ![Len(stack[c])] = f]]

\* botanu_workflow(name, event_id=..., customer_id=...) raising ValueError at
\* decoration time (lines 97-100): no wrapper exists, nothing can be called.
DecorateRejected(c, form, ids) ==
    /\ CanCall(c)
    /\ Len(stack[c]) < MaxDepth
    /\ form \in {"sync", "async"}
    /\ ids[1] = "" \/ ids[2] = ""
    /\ stack' = [stack EXCEPT ![c] = Append(stack[c],
            [form |-> form, auto |-> TRUE, event_id |-> ids[1], customer_id |-> ids[2],
             run_ctx |-> Absent, span |-> Absent,
             token |-> Absent, spanToken |-> Absent, pre |-> ambient[c],
             pc |-> "Exited", exit |-> "invalid", raised |-> None, exc |-> "ValueError",
             explicit |-> None, emitted |-> None, bodyRan |-> FALSE])]
    /\ UNCHANGED <<osenv, now, ambient, ledger, bodyOps, chain, headArgs, attached, unitVars>>

\* Entry of a scope up to the start of the wrapped code: sync_wrapper /
\* async_wrapper lines 112-143 and 176-207, run_botanu lines 355-380.
\* The frame's auto field gets its value when the scope returns (ExitReturn);
\* raised / exc / exit are filled in by the exit that leaves the scope.
Enter(c, form, kind, ids, rid) ==
    /\ CanCall(c)
    /\ Len(stack[c]) < MaxDepth
    /\ rid = FreshRunId(c)
    /\ form = "cm" => kind = "static"
    \* a decorator given an empty static string never yields a wrapper
    /\ (form \in {"sync", "async"} /\ kind = "static") => (ids[1] # "" /\ ids[2] # "")
    /\ LET pre == ambient[c]
           run_ctx == create([create_defaults EXCEPT
                                !.event_id = ids[1],
                                !.customer_id = ids[2],
                                !.workflow_version = IF form = "cm" THEN None ELSE "v:abc",
                                !.parent_run_id = get_parent_run_id(pre)],
                             rid, now)
           \* tracer.start_as_current_span: the span becomes current
           withSpan == [pre EXCEPT !.span = Len(stack[c]) + 1]
           span1 == set_attributes(NewSpan, to_span_attributes(run_ctx, now))
           span2 == add_event(span1, "botanu.run.started",
                              [k \in {"run_id", "workflow"} |->
                                 IF k = "run_id" THEN run_ctx.run_id ELSE run_ctx.workflow])
           \* one composite context, attached once
           ctx == set_baggage_all(withSpan, to_baggage_dict(run_ctx, Absent))
       IN /\ ambient' = [ambient EXCEPT ![c] = ctx]
          /\ attached' = [attached EXCEPT ![c] =
                @ \o entry_tokens(withSpan, to_baggage_dict(run_ctx, Absent))]
          /\ stack' = [stack EXCEPT ![c] = Append(stack[c],
                [form |-> form, auto |-> TRUE, event_id |-> ids[1], customer_id |-> ids[2],
                 run_ctx |-> Some(run_ctx), span |-> Some(span2),
                 token |-> Some(withSpan), spanToken |-> Some(pre), pre |-> pre,
                 pc |-> "Running", exit |-> "none", raised |-> None, exc |-> None,
                 explicit |-> None, emitted |-> None, bodyRan |-> TRUE])]
    /\ UNCHANGED <<osenv, now, ledger, bodyOps, chain, headArgs, unitVars>>

\* The frame whose span is current in context c (trace.get_current_span()).
CurrentSpanOwner(c) == ambient[c].span

\* Application code calls emit_outcome(status).
BodyEmitOutcome(c, status) ==
    /\ Running(c)
    /\ bodyOps < MaxBodyOps
    /\ CurrentSpanOwner(c) = Len(stack[c])
    /\ stack' = ReplaceTop(c, [Top(c) EXCEPT
            !.span = Some(emit_outcome(Top(c).span[1], status)),
            !.emitted = status])
    /\ bodyOps' = bodyOps + 1
    /\ UNCHANGED <<osenv, now, ambient, ledger, chain, headArgs, attached, unitVars>>

\* Application code sets botanu.outcome.status on the current span itself.
BodySetOutcomeAttribute(c, status) ==
    /\ Running(c)
    /\ bodyOps < MaxBodyOps
    /\ CurrentSpanOwner(c) = Len(stack[c])
    /\ stack' = ReplaceTop(c, [Top(c) EXCEPT
            !.span = Some(set_attribute(Top(c).span[1], "botanu.outcome.status", status)),
            !.emitted = status])
    /\ bodyOps' = bodyOps + 1
    /\ UNCHANGED <<osenv, now, ambient, ledger, chain, headArgs, attached, unitVars>>

\* Application code inside run_botanu calls run.complete(status) on the
\* RunContext the context manager yielded.
BodyComplete(c, status) ==
    /\ Running(c)
    /\ bodyOps < MaxBodyOps
    /\ Top(c).form = "cm"
    /\ stack' = ReplaceTop(c, [Top(c) EXCEPT
            !.run_ctx = Some(complete(Top(c).run_ctx[1], status, None, None, Absent)),
            !.explicit = status])
    /\ bodyOps' = bodyOps + 1
    /\ UNCHANGED <<osenv, now, ambient, ledger, chain, headArgs, attached, unitVars>>

\* Application code calls record_attempt_ended(run_id=get_run_id(), status=...).
BodyRecordAttemptEnded(c, status) ==
    /\ Running(c)
    /\ bodyOps < MaxBodyOps
    /\ ledger' = attempt_ended(ledger, get_baggage(ambient[c], "botanu.run_id"), status, None)
    /\ bodyOps' = bodyOps + 1
    /\ UNCHANGED <<osenv, now, ambient, stack, chain, headArgs, attached, unitVars>>

\* The two detaches on the way out: the baggage token in the finally block,
\* then the span's own context token when the with block is left.
LeaveContext(c) == detach(detach(ambient[c], Top(c).token[1]), Top(c).spanToken[1])

\* The wrapped code returns: lines 212-222 / 385-396, then the finally block.
\* auto is the scope's auto_outcome_on_success argument; nothing reads it
\* before this point, so it is drawn here.
ExitReturn(c, auto) ==
    /\ Running(c)
    /\ LET f == Top(c)
           span == f.span[1]
           existing_outcome == Get(span.attributes, "botanu.outcome.status")
           rc1 == IF existing_outcome = None /\ auto
                  THEN complete(f.run_ctx[1], SUCCESS, None, None, Absent)
                  ELSE f.run_ctx[1]
           s1 == set_status(span, "OK")
           s2 == emit_run_completed(s1, rc1, SUCCESS, None, now)
       IN stack' = ReplaceTop(c, [f EXCEPT
               !.auto = auto, !.run_ctx = Some(rc1), !.span = Some(end_span(s2)),
               !.pc = "Exited", !.exit = "return"])
    /\ ambient' = [ambient EXCEPT ![c] = LeaveContext(c)]
    /\ attached' = [attached EXCEPT ![c] = release(@, Top(c).token[1])]
    /\ UNCHANGED <<osenv, now, ledger, bodyOps, chain, headArgs, unitVars>>

\* The wrapped code raises an Exception of class cls: lines 224-236 / 398-407.
\* Leaving the with block with the exception in flight, the tracer records
\* it once more and ends the span.
ExitRaise(c, cls) ==
    /\ Running(c)
    /\ LET f == Top(c)
           s1 == set_status(f.span[1], "ERROR")
           s2 == add_event(s1, "exception", [k \in {"exception.type"} |-> cls])
           rc1 == complete(f.run_ctx[1], FAILURE, cls, None, Absent)
           s3 == emit_run_completed(s2, rc1, FAILURE, cls, now)
           s4 == add_event(s3, "exception", [k \in {"exception.type"} |-> cls])
       IN stack' = ReplaceTop(c, [f EXCEPT
               !.run_ctx = Some(rc1), !.span = Some(end_span(s4)),
               !.pc = "Exited", !.exit = "raise", !.raised = cls, !.exc = cls])
    /\ ambient' = [ambient EXCEPT ![c] = LeaveContext(c)]
    /\ attached' = [attached EXCEPT ![c] = release(@, Top(c).token[1])]
    /\ UNCHANGED <<osenv, now, ledger, bodyOps, chain, headArgs, unitVars>>

\* The task awaiting an async scope is cancelled: CancelledError is thrown
\* into the wrapped coroutine. `except Exception` (line 160) does not match a
\* BaseException, so only the finally block runs. Whether the tracer marks the
\* span on a BaseException depends on the installed opentelemetry version.
ExitCancel(c, tracerMarks) ==
    /\ Running(c)
    /\ Top(c).form = "async"
    /\ LET f == Top(c)
           s1 == IF tracerMarks
                 THEN add_event(set_status(f.span[1], "ERROR"), "exception",
                                [k \in {"exception.type"} |-> CancelledError])
                 ELSE f.span[1]
       IN stack' = ReplaceTop(c, [f EXCEPT
               !.span = Some(end_span(s1)),
               !.pc = "Exited", !.exit = "cancel", !.raised = CancelledError, !.exc = CancelledError])
    /\ ambient' = [ambient EXCEPT ![c] = LeaveContext(c)]
    /\ attached' = [attached EXCEPT ![c] = release(@, Top(c).token[1])]
    /\ UNCHANGED <<osenv, now, ledger, bodyOps, chain, headArgs, unitVars>>

\* The caller takes the result (the return value or the exception) and goes on.
CallerContinues(c) ==
    /\ stack[c] # <<>>
    /\ Top(c).pc = "Exited"
    /\ stack' = [stack EXCEPT ![c] = SubSeq(stack[c], 1, Len(stack[c]) - 1)]
    /\ UNCHANGED <<osenv, now, ambient, ledger, bodyOps, chain, headArgs, attached, unitVars>>

\* ------------------------------------------------------------------------
\* Bootstrap (sdk/bootstrap.py): module state and the global tracer provider
\* ------------------------------------------------------------------------
\* Threads of the process that call enable() and disable().
BootThreads == {"th1", "th2"}

\* The module as imported: _initialized = False, _current_config = None,
\* _lock free; no SDK TracerProvider is installed. `provider` is the global
\* tracer provider: whether it is an SDK TracerProvider, how many
\* RunContextEnricher processors were added to it, how often it was
\* force-flushed and shut down. pc, calls, last, trues, falses and failed
\* record the calls: where each thread is, how many calls were made, the
\* last call that returned, and how many enable() calls returned True,
\* returned False, and failed to set the SDK up since the SDK was last
\* uninitialized by disable().
BootIdle ==
    [initialized |-> FALSE, config |-> None, lock |-> None,
     provider |-> [sdk |-> FALSE, enrichers |-> 0, flushed |-> 0, shutdowns |-> 0],
     pc |-> [t \in BootThreads |-> "idle"],
     calls |-> 0, last |-> Absent, trues |-> 0, falses |-> 0, failed |-> 0]

\* A lock any thread may enter at any time.
lock_acquirable_always(lock, t) == TRUE

\* `with _lock:` an RLock is entered when it is free or held by the caller.
lock_acquirable(lock, t) == lock = None \/ lock = t

\* enable(), lines 109-199, entered with _initialized False: the provider is
\* reused or created (155-161), the enricher added (164), the exporter and
\* its batch processor built and added (166-178), _initialized set (194).
\* outcome says where an exception, if any, is raised: before line 164
\* (resource detection), after it (exporter or batch processor arguments),
\* or nowhere. The except clause (197-199) returns False.
setup(b, outcome) ==
    IF outcome = "fails_before_registering"
    THEN [state |-> b, result |-> FALSE]
    ELSE [state |-> [b EXCEPT !.provider.sdk = TRUE,
                              !.provider.enrichers = @ + 1,
                              !.initialized = (outcome = "ok")],
          result |-> (outcome = "ok")]

\* A disable() that shuts the provider down and keeps the module state.
shutdown_sdk_keeping_state(b, outcome) ==
    [b EXCEPT !.provider.flushed = @ + 1,
              !.provider.shutdowns = @ + 1]

\* disable(), lines 364-381, entered with _initialized True: force_flush,
\* shutdown, then the module state is cleared; an exception of either call
\* skips the rest (380-381).
shutdown_sdk(b, outcome) ==
    CASE outcome = "flush_raises" ->
            [b EXCEPT !.provider.flushed = @ + 1]
      [] outcome = "shutdown_raises" ->
            [b EXCEPT !.provider.flushed = @ + 1,
                      !.provider.shutdowns = @ + 1]
      [] OTHER ->
            [b EXCEPT !.provider.flushed = @ + 1,
                      !.provider.shutdowns = @ + 1,
                      !.initialized = FALSE,
                      !.config = None]

\* ------------------------------------------------------------------------
\* Attempt ledger (tracking/ledger.py): the emission operations
\* ------------------------------------------------------------------------
\* The eight emission methods of AttemptLedger and the LedgerEventType value
\* each passes to _emit.
event_type ==
    [attempt_started |-> "attempt.started",
     attempt_ended |-> "attempt.ended",
     llm_attempted |-> "llm.attempted",
     tool_attempted |-> "tool.attempted",
     cancel_requested |-> "cancellation.requested",
     cancel_acknowledged |-> "cancellation.acknowledged",
     zombie_detected |-> "zombie.detected",
     redelivery_detected |-> "redelivery.detected"]

\* An _emit without its exception handler.
emit_unguarded(l, op, run_id, span, sink_fails) ==
    [ledger |-> IF l.initialized
                THEN [l EXCEPT !.sink = Append(@, [name |-> event_type[op], run_id |-> run_id,
                                                    correlated |-> span # "none"])]
                ELSE l,
     raised |-> IF l.initialized /\ sink_fails THEN "Exception" ELSE None]

\* An _emit that follows the sampling decision of the current span.
emit_sampled(l, op, run_id, span, sink_fails) ==
    [ledger |-> IF l.initialized /\ span # "unsampled"
                THEN [l EXCEPT !.sink = Append(@, [name |-> event_type[op], run_id |-> run_id,
                                                    correlated |-> span # "none"])]
                ELSE l,
     raised |-> None]

\* AttemptLedger.<op>(run_id, ...) -> _emit (lines 112-142): nothing happens
\* without a logger; otherwise one LogRecord is built, with trace_id and
\* span_id when the current span's context is valid (_get_trace_context,
\* 102-110), and handed to self._logger.emit; an exception of the sink is
\* caught and logged. span is the current span: none, sampled or unsampled.
emit(l, op, run_id, span, sink_fails) ==
    [ledger |-> IF l.initialized
                THEN [l EXCEPT !.sink = Append(@, [name |-> event_type[op], run_id |-> run_id,
                                                    correlated |-> span # "none"])]
                ELSE l,
     raised |-> None]

\* ------------------------------------------------------------------------
\* Global ledger (tracking/ledger.py, lines 385-420)
\* ------------------------------------------------------------------------
\* The module as imported: _global_ledger is None and the lru_cache of
\* _create_default_ledger is empty. made counts the default ledgers
\* constructed (they are called d1, d2, ...); received holds, per ledger
\* instance, the methods called on it through the record_* functions. pc,
\* mode, got, lastSet, caller and returns record the calls: where each thread
\* is inside get_ledger(), whether it is there for a record_* function, what
\* its last get_ledger() returned, the last ledger passed to set_ledger, the
\* thread whose get_ledger() returned last, and how many have returned.
RegistryIdle ==
    [global |-> None, cache |-> Absent, made |-> 0, received |-> EmptyDict,
     pc |-> [t \in BootThreads |-> "idle"],
     mode |-> [t \in BootThreads |-> "get"],
     got |-> [t \in BootThreads |-> None],
     lastSet |-> Absent, caller |-> None, calls |-> 0, returns |-> 0]

\* A setter that only sets the first time.
set_ledger_once(r, L) == IF r.global = None THEN [r EXCEPT !.global = L] ELSE r

\* set_ledger (401-404)
set_ledger(r, L) == [r EXCEPT !.global = L]

\* The end of thread t's get_ledger(), which returns inst; a record_*
\* function (407-420) then calls its method on inst.
get_ledger_returns(r, t, inst) ==
    [r EXCEPT !.pc[t] = "idle",
              !.got[t] = inst,
              !.caller = t,
              !.returns = @ + 1,
              !.received = IF r.mode[t] = "get"
                           THEN @
                           ELSE Put(@, inst, Append(GetOr(@, inst, <<>>), r.mode[t]))]

\* ------------------------------------------------------------------------
\* Identity generator (models/run_context.py generate_run_id)
\* ------------------------------------------------------------------------
\* TLC integers have 32 bits, so a millisecond clock reading is kept as two
\* halves: timestamp_ms = hi * 2^24 + lo with 0 <= lo < 2^24. A reading
\* below 2^48 has hi < 2^24.
TimestampLess(t1, t2) == t1.hi < t2.hi \/ (t1.hi = t2.hi /\ t1.lo < t2.lo)

\* bytes.hex(): two lower-case hexadecimal digits per byte
HexDigit == <<"0", "1", "2", "3", "4", "5", "6", "7", "8", "9", "a", "b", "c", "d", "e", "f">>
hex(byte) == <<HexDigit[(byte \div 16) + 1], HexDigit[(byte % 16) + 1]>>

\* A generator that stores the clock reading least significant byte first.
generate_run_id_little_endian(timestamp_ms, random_bytes) ==
    LET uuid_bytes ==
            << timestamp_ms.lo % 256,
               (timestamp_ms.lo \div 256) % 256,
               (timestamp_ms.lo \div 65536) % 256,
               timestamp_ms.hi % 256,
               (timestamp_ms.hi \div 256) % 256,
               (timestamp_ms.hi \div 65536) % 256,
               112 + (random_bytes[1] % 16),
               random_bytes[2],
               128 + (random_bytes[3] % 64) >> \o SubSeq(random_bytes, 4, 10)
        hex_str == hex(uuid_bytes[1]) \o hex(uuid_bytes[2]) \o hex(uuid_bytes[3]) \o hex(uuid_bytes[4])
                   \o hex(uuid_bytes[5]) \o hex(uuid_bytes[6]) \o hex(uuid_bytes[7]) \o hex(uuid_bytes[8])
                   \o hex(uuid_bytes[9]) \o hex(uuid_bytes[10]) \o hex(uuid_bytes[11]) \o hex(uuid_bytes[12])
                   \o hex(uuid_bytes[13]) \o hex(uuid_bytes[14]) \o hex(uuid_bytes[15]) \o hex(uuid_bytes[16])
    IN SubSeq(hex_str, 1, 8) \o <<"-">> \o SubSeq(hex_str, 9, 12) \o <<"-">> \o SubSeq(hex_str, 13, 16)
       \o <<"-">> \o SubSeq(hex_str, 17, 20) \o <<"-">> \o SubSeq(hex_str, 21, 32)

\* generate_run_id() when int(time.time() * 1000) is timestamp_ms and
\* os.urandom(10) returns random_bytes: the identifier, one character per
\* element. (x >> 8k) & 0xFF is (x \div 2^8k) % 256; 0x70 | (r & 0x0F) is
\* 112 + r % 16; 0x80 | (r & 0x3F) is 128 + r % 64.
generate_run_id(timestamp_ms, random_bytes) ==
    LET uuid_bytes ==
            << (timestamp_ms.hi \div 65536) % 256,
               (timestamp_ms.hi \div 256) % 256,
               timestamp_ms.hi % 256,
               (timestamp_ms.lo \div 65536) % 256,
               (timestamp_ms.lo \div 256) % 256,
               timestamp_ms.lo % 256,
               112 + (random_bytes[1] % 16),
               random_bytes[2],
               128 + (random_bytes[3] % 64) >> \o SubSeq(random_bytes, 4, 10)
        hex_str == hex(uuid_bytes[1]) \o hex(uuid_bytes[2]) \o hex(uuid_bytes[3]) \o hex(uuid_bytes[4])
                   \o hex(uuid_bytes[5]) \o hex(uuid_bytes[6]) \o hex(uuid_bytes[7]) \o hex(uuid_bytes[8])
                   \o hex(uuid_bytes[9]) \o hex(uuid_bytes[10]) \o hex(uuid_bytes[11]) \o hex(uuid_bytes[12])
                   \o hex(uuid_bytes[13]) \o hex(uuid_bytes[14]) \o hex(uuid_bytes[15]) \o hex(uuid_bytes[16])
    IN SubSeq(hex_str, 1, 8) \o <<"-">> \o SubSeq(hex_str, 9, 12) \o <<"-">> \o SubSeq(hex_str, 13, 16)
       \o <<"-">> \o SubSeq(hex_str, 17, 20) \o <<"-">> \o SubSeq(hex_str, 21, 32)

\* ------------------------------------------------------------------------
\* Tracker scopes (tracking/llm.py) and the retry callbacks
\* (integrations/tenacity.py)
\* ------------------------------------------------------------------------
\* The module state as imported: the attempt variable the retry callbacks
\* set (unset), no tracker scope open, the counters botanu.gen_ai.attempts
\* ("llm") and botanu.tool.executions ("tool") at zero for both statuses.
\* loop is the attempt of the retry loop that is running (0: none),
\* finished the last attempt of the loop that ended last, after_ran whether
\* botanu_after_all ran since; last is the scope that was closed by the last
\* step and calls the number of scopes opened.
TrackIdle ==
    [retry_attempt |-> Absent, loop |-> 0, finished |-> 0, after_ran |-> FALSE,
     open |-> Absent, last |-> Absent,
     counter |-> [kind \in {"llm", "tool"} |-> [s \in {"success", "error"} |-> 0]],
     calls |-> 0]

\* botanu_before(retry_state): _retry_attempt.set(retry_state.attempt_number)
botanu_before(tr, attempt_number) == [tr EXCEPT !.retry_attempt = Some(attempt_number)]

\* botanu_after_all(retry_state): _retry_attempt.set(0)
botanu_after_all(tr) == [tr EXCEPT !.retry_attempt = Some(0)]

\* track_llm_call(provider, model) up to its yield (lines 407-431): the span
\* is started and gets the operation, provider, model and vendor; the
\* tracker is built with its defaults. Nothing here reads the attempt
\* variable of the retry callbacks.
track_llm_call ==
    [kind |-> "llm",
     span |-> set_attributes(NewSpan,
                [k \in {"gen_ai.operation.name", "gen_ai.provider.name", "gen_ai.request.model", "botanu.vendor"} |->
                    CASE k = "gen_ai.operation.name" -> "chat"
                      [] k = "gen_ai.request.model" -> "gpt-4"
                      [] OTHER -> "openai"]),
     attempt_number |-> 1, success |-> TRUE, error_type |-> None,
     finalized |-> 0, ops |-> 0, set_attempt_called |-> FALSE]

\* track_tool_call(tool_name) up to its yield (lines 559-577)
track_tool_call ==
    [kind |-> "tool",
     span |-> set_attributes(NewSpan,
                [k \in {"gen_ai.operation.name", "gen_ai.tool.name"} |->
                    IF k = "gen_ai.operation.name" THEN "execute_tool" ELSE "search"]),
     attempt_number |-> 1, success |-> TRUE, error_type |-> None,
     finalized |-> 0, ops |-> 0, set_attempt_called |-> FALSE]

\* LLMTracker.set_attempt(attempt_number)
set_attempt(tracker, attempt_number) ==
    [tracker EXCEPT !.attempt_number = attempt_number,
                    !.span = set_attribute(@, "botanu.request.attempt", attempt_number),
                    !.set_attempt_called = TRUE]

\* LLMTracker.set_error(error) / ToolTracker.set_error(error) for an error of
\* class cls
set_error(tracker, cls) ==
    [tracker EXCEPT !.error_type = cls,
                    !.success = IF tracker.kind = "tool" THEN FALSE ELSE @,
                    !.span = add_event(set_attribute(set_status(@, "ERROR"), "error.type", cls),
                                       "exception", [k \in {"exception.type"} |-> cls])]

\* A _finalize that counts nothing once an error is recorded.
finalize_unless_error(tr, tracker) ==
    IF Truthy(tracker.error_type)
    THEN [track |-> tr, tracker |-> tracker]
    ELSE [track |-> [tr EXCEPT !.counter[tracker.kind]["success"] = @ + 1],
          tracker |-> [tracker EXCEPT !.finalized = @ + 1]]

\* LLMTracker._finalize() (358-387) / ToolTracker._finalize() (524-537): the
\* duration is recorded (for a tool also on the span; the clock does not
\* advance inside a scope here) and the kind's counter gets 1 added under
\* the status "error" when error_type is set and "success" otherwise.
finalize(tr, tracker) ==
    LET status == IF Truthy(tracker.error_type) THEN "error" ELSE "success"
    IN [track |-> [tr EXCEPT !.counter[tracker.kind][status] = @ + 1],
        tracker |-> [tracker EXCEPT
            !.finalized = @ + 1,
            !.span = IF tracker.kind = "tool"
                     THEN set_attribute(@, "botanu.tool.duration_ms", 0)
                     ELSE @]]

\* ------------------------------------------------------------------------
\* Outcome decorator (sdk/decorators.py botanu_outcome)
\* ------------------------------------------------------------------------
\* The wrapper after the wrapped function returned (lines 308-311): success
\* is emitted unless the current span has a botanu.outcome.status attribute.
botanu_outcome_returned(span) ==
    IF span.attributes = EmptyDict \/ ~Has(span.attributes, "botanu.outcome.status")
    THEN emit_outcome(span, "success")
    ELSE span

\* The wrapper after the wrapped function raised an Exception of class cls
\* (lines 313-315): emit_outcome("failed", reason=cls), then the error is
\* re-raised.
botanu_outcome_raised(span, cls) ==
    set_attribute(emit_outcome(span, "failed"), "botanu.outcome.reason", cls)

\* Nothing has opened a tracker scope, called a wrapped function or
\* generated an identifier.
HelpersIdle ==
    /\ track = TrackIdle
    /\ decorated = Absent
    /\ generated = <<>>

\* ------------------------------------------------------------------------
\* Specification of the run scopes
\* ------------------------------------------------------------------------
Environments ==
    { EmptyDict,
      [k \in {"BOTANU_PROPAGATION_MODE", "BOTANU_ENVIRONMENT"} |->
         IF k = "BOTANU_PROPAGATION_MODE" THEN "full" ELSE "staging"] }

\* Nothing has called the codec, is_cancelled or the enricher.
NoUnitCalls ==
    /\ encoded = Absent
    /\ baggage = EmptyDict
    /\ decoded = Absent
    /\ queried = Absent
    /\ enriched = Absent
    /\ boot = BootIdle
    /\ registry = RegistryIdle
    /\ lcall = Absent
    /\ served = Absent
    /\ HelpersIdle

Init ==
    /\ osenv \in Environments
    /\ now = 0
    /\ ambient \in [Contexts -> {EmptyContext, UpstreamContext}]
    /\ stack = [c \in Contexts |-> <<>>]
    /\ ledger \in {[initialized |-> b, sink |-> <<>>] : b \in BOOLEAN}
    /\ bodyOps = 0
    /\ chain = <<>>
    /\ headArgs = create_defaults
    /\ attached = [c \in Contexts |-> <<>>]
    /\ NoUnitCalls

Next ==
    \E c \in Contexts :
        \/ \E form \in Forms, ids \in IdInputs : DecorateRejected(c, form, ids)
        \/ \E form \in Forms, kind \in IdKinds, ids \in IdInputs, rid \in RunIds :
              Enter(c, form, kind, ids, rid)
        \/ \E status \in EmittedStatuses : BodyEmitOutcome(c, status)
        \/ \E status \in EmittedStatuses : BodySetOutcomeAttribute(c, status)
        \/ \E status \in CompletedStatuses : BodyComplete(c, status)
        \/ \E status \in {SUCCESS} : BodyRecordAttemptEnded(c, status)
        \/ \E auto \in BOOLEAN : ExitReturn(c, auto)
        \/ \E cls \in ErrorClasses : ExitRaise(c, cls)
        \/ \E tracerMarks \in BOOLEAN : ExitCancel(c, tracerMarks)
        \/ CallerContinues(c)

Spec == Init /\ [][Next]_vars


\* ------------------------------------------------------------------------
\* Specification of RunContext on its own: a retry chain
\* ------------------------------------------------------------------------
\* Identifiers generate_run_id returns to direct callers of the factory:
\* one the chain does not hold yet.
ChainRunIds == {r \in RunIds : \A i \in DOMAIN chain : chain[i].run_id # r}
FreshChainRunId == CHOOSE r \in ChainRunIds : TRUE

\* Keyword arguments RunContext.create is called with.
CreateInputs ==
    { [create_defaults EXCEPT
          !.event_id = ids[1], !.customer_id = ids[2],
          !.environment = x[1], !.tenant_id = x[2], !.parent_run_id = x[3],
          !.root_run_id = g[1], !.attempt = g[2], !.retry_of_run_id = g[3],
          !.deadline_seconds = d] :
        ids \in IdInputs,
        x \in {<<None, None, None>>, <<"dev", "t1", UpstreamRunId>>},
        g \in {<<None, 1, None>>, <<"custom-root", 2, UpstreamRunId>>},
        d \in {Absent, Some(1)} }

Last(q) == q[Len(q)]

\* ctx = RunContext.create(**a), the first context of the chain
RCCreate(a, rid) ==
    /\ chain = <<>>
    /\ rid = FreshChainRunId
    /\ chain' = <<create(a, rid, now)>>
    /\ headArgs' = a
    /\ UNCHANGED <<osenv, now, ambient, stack, ledger, bodyOps, attached, unitVars>>

\* retry = RunContext.create_retry(previous) on the newest attempt
RCRetry(rid) ==
    /\ chain # <<>>
    /\ Len(chain) < MaxChain
    /\ rid = FreshChainRunId
    /\ chain' = Append(chain, create_retry(Last(chain), rid, now))
    /\ UNCHANGED <<osenv, now, ambient, stack, ledger, bodyOps, headArgs, attached, unitVars>>

\* ctx.complete(status) on the newest attempt
RCComplete(status) ==
    /\ chain # <<>>
    /\ chain' = [chain EXCEPT ![Len(chain)] = complete(@, status, None, None, Absent)]
    /\ UNCHANGED <<osenv, now, ambient, stack, ledger, bodyOps, headArgs, attached, unitVars>>

\* ctx.request_cancellation() on the newest attempt
RCRequestCancellation ==
    /\ chain # <<>>
    /\ chain' = [chain EXCEPT ![Len(chain)] = request_cancellation(@, now)]
    /\ UNCHANGED <<osenv, now, ambient, stack, ledger, bodyOps, headArgs, attached, unitVars>>

\* Time passes.
Tick ==
    /\ now < MaxTime
    /\ now' = now + 1
    /\ UNCHANGED <<osenv, ambient, stack, ledger, bodyOps, chain, headArgs, attached, unitVars>>

NextRC ==
    \/ \E a \in CreateInputs, rid \in ChainRunIds : RCCreate(a, rid)
    \/ \E rid \in ChainRunIds : RCRetry(rid)
    \/ \E status \in {SUCCESS} : RCComplete(status)
    \/ RCRequestCancellation
    \/ Tick

InitRC ==
    /\ osenv \in Environments
    /\ now = 0
    /\ ambient = [c \in Contexts |-> EmptyContext]
    /\ stack = [c \in Contexts |-> <<>>]
    /\ ledger = [initialized |-> TRUE, sink |-> <<>>]
    /\ bodyOps = 0
    /\ chain = <<>>
    /\ headArgs = create_defaults
    /\ attached = [c \in Contexts |-> <<>>]
    /\ NoUnitCalls

SpecRC == InitRC /\ [][NextRC]_vars


\* ------------------------------------------------------------------------
\* Specification of run scopes in concurrent execution contexts
\* ------------------------------------------------------------------------
\* Two threads or asyncio tasks; the OpenTelemetry context is a contextvar,
\* so each has its own current context.
Tasks == {"t1", "t2"}

\* A task calls a decorated function, or enters run_botanu, from its top level.
TaskCalls(c) == stack[c] = <<>>

NextConc ==
    \E c \in Tasks :
        \/ \E form \in Forms, ids \in IdInputs : TaskCalls(c) /\ DecorateRejected(c, form, ids)
        \/ \E form \in Forms, kind \in IdKinds, ids \in IdInputs, rid \in RunIds :
              TaskCalls(c) /\ Enter(c, form, kind, ids, rid)
        \/ \E status \in EmittedStatuses : BodyEmitOutcome(c, status)
        \/ \E status \in CompletedStatuses : BodyComplete(c, status)
        \/ \E auto \in BOOLEAN : ExitReturn(c, auto)
        \/ \E cls \in ErrorClasses : ExitRaise(c, cls)
        \/ \E tracerMarks \in BOOLEAN : ExitCancel(c, tracerMarks)
        \/ CallerContinues(c)

\* The tasks start with a copy of the context of the code that spawned them.
InitConc ==
    /\ osenv \in Environments
    /\ now = 0
    /\ ambient \in {[c \in Tasks |-> cv] : cv \in {EmptyContext, UpstreamContext}}
    /\ stack = [c \in Tasks |-> <<>>]
    /\ ledger = [initialized |-> TRUE, sink |-> <<>>]
    /\ bodyOps = 0
    /\ chain = <<>>
    /\ headArgs = create_defaults
    /\ attached = [c \in Tasks |-> <<>>]
    /\ NoUnitCalls

SpecConc == InitConc /\ [][NextConc]_vars


\* ------------------------------------------------------------------------
\* Specification of cancellation queries on one RunContext
\* ------------------------------------------------------------------------
\* Keyword arguments of create: as CreateInputs, with no deadline, one that
\* is due at once and one a second away.
QueryCreateInputs ==
    {[a EXCEPT !.deadline_seconds = d] : a \in CreateInputs, d \in {Absent, Some(0), Some(1)}}

\* ctx.is_cancelled(): reads cancelled, deadline and the clock, assigns nothing.
RCIsCancelled ==
    /\ chain # <<>>
    /\ queried' = Some(is_cancelled(Last(chain), now))
    /\ UNCHANGED <<osenv, now, ambient, stack, ledger, bodyOps, chain, headArgs, attached, encoded, baggage, decoded, enriched, procVars, helperVars>>

NextQuery ==
    \/ \E a \in QueryCreateInputs, rid \in ChainRunIds : RCCreate(a, rid)
    \/ \E status \in {SUCCESS} : RCComplete(status)
    \/ RCRequestCancellation
    \/ RCIsCancelled
    \/ Tick

SpecQuery == InitRC /\ [][NextQuery]_vars

\* ------------------------------------------------------------------------
\* Specification of the carrier codec: encode a context, decode the result
\* ------------------------------------------------------------------------
\* Keyword arguments of the RunContext.create calls whose result is encoded.
CodecCreateInputs ==
    { [create_defaults EXCEPT
          !.workflow = w, !.event_id = e,
          !.tenant_id = x[1], !.parent_run_id = x[2],
          !.root_run_id = g[1], !.attempt = g[2], !.retry_of_run_id = g[3],
          !.deadline_seconds = d] :
        w \in {"W", ""},
        e \in {"e1", ""},
        x \in {<<None, None>>, <<"t1", UpstreamRunId>>, <<"", None>>},
        g \in {<<None, 1, None>>, <<"custom-root", 2, UpstreamRunId>>, <<None, 0, None>>},
        d \in {Absent, Some(1)} }

\* lean_mode arguments of to_baggage_dict: None, True, False
LeanModes == {Absent, Some(TRUE), Some(FALSE)}

\* baggage = ctx.to_baggage_dict(lean_mode) on the context created
Encode(lean_mode) ==
    /\ chain # <<>>
    /\ encoded' = Some([rc |-> Last(chain), lean_mode |-> lean_mode])
    /\ baggage' = to_baggage_dict(Last(chain), lean_mode)
    /\ decoded' = Absent
    /\ UNCHANGED <<osenv, now, ambient, stack, ledger, bodyOps, chain, headArgs, attached, queried, enriched, procVars, helperVars>>

\* RunContext.from_baggage(baggage) on the carrier at hand
Decode ==
    /\ decoded = Absent
    /\ decoded' = Some(from_baggage(baggage, now))
    /\ UNCHANGED <<osenv, now, ambient, stack, ledger, bodyOps, chain, headArgs, attached, encoded, baggage, queried, enriched, procVars, helperVars>>

NextCodec ==
    \/ \E a \in CodecCreateInputs, rid \in ChainRunIds : RCCreate(a, rid)
    \/ RCRequestCancellation
    \/ \E lean_mode \in LeanModes : Encode(lean_mode)
    \/ Decode

SpecCodec == InitRC /\ [][NextCodec]_vars

\* ------------------------------------------------------------------------
\* Specification of decoding: carriers that arrive from a peer
\* ------------------------------------------------------------------------
\* Texts a peer puts under the keys from_baggage reads; None stands for a
\* key the carrier does not have.
PeerRunIdTexts == {None, "", UpstreamRunId}
PeerWorkflowTexts == {None, "", "Up"}
PeerAttemptTexts == {None, "2", " 3 ", "0", "-1", "2.5", "abc", ""}
PeerDeadlineTexts == {None, "1000", "soon", "", "nan", "inf"}
PeerCancelledTexts == {None, "True"}

\* The dict without the keys whose value is None.
WithoutNone(d) == [k \in {x \in DOMAIN d : d[x] # None} |-> d[k]]

PeerCarriers ==
    { WithoutNone(
        [k \in {"botanu.run_id", "botanu.workflow", "botanu.event_id", "botanu.customer_id",
                 "botanu.environment", "botanu.tenant_id", "botanu.attempt", "botanu.deadline",
                 "botanu.cancelled", "other.key"} |->
            CASE k = "botanu.run_id" -> r
              [] k = "botanu.workflow" -> w
              [] k = "botanu.event_id" -> "e0"
              [] k = "botanu.customer_id" -> "c0"
              [] k = "botanu.environment" -> "dev"
              [] k = "botanu.tenant_id" -> "t0"
              [] k = "botanu.attempt" -> a
              [] k = "botanu.deadline" -> d
              [] k = "botanu.cancelled" -> x
              [] OTHER -> "v"]) :
        r \in PeerRunIdTexts, w \in PeerWorkflowTexts, a \in PeerAttemptTexts,
        d \in PeerDeadlineTexts, x \in PeerCancelledTexts }

\* A carrier extracted from an incoming request is handed to the codec.
Receive(b) ==
    /\ encoded' = Absent
    /\ baggage' = b
    /\ decoded' = Absent
    /\ UNCHANGED <<osenv, now, ambient, stack, ledger, bodyOps, chain, headArgs, attached, queried, enriched, procVars, helperVars>>

NextDecode ==
    \/ \E b \in PeerCarriers : Receive(b)
    \/ Decode

SpecDecode == InitRC /\ [][NextDecode]_vars


\* ------------------------------------------------------------------------
\* Specification of the span enricher (processors/enricher.py)
\* ------------------------------------------------------------------------
BAGGAGE_KEYS_FULL ==
    <<"botanu.run_id", "botanu.use_case", "botanu.workflow", "botanu.environment",
      "botanu.tenant_id", "botanu.parent_run_id">>
BAGGAGE_KEYS_LEAN == <<"botanu.run_id", "botanu.use_case">>

\* RunContextEnricher.__init__: self._baggage_keys
baggage_keys(lean_mode) == IF lean_mode THEN BAGGAGE_KEYS_LEAN ELSE BAGGAGE_KEYS_FULL

\* `parent_context or context.get_current()`: None and an empty Context are
\* falsy.
enricher_context(parent_context, current) ==
    IF parent_context # Absent /\ parent_context[1] # EmptyContext
    THEN parent_context[1]
    ELSE current

\* An enricher loop that writes every carrier value it finds.
RECURSIVE copy_keys_overwriting(_, _, _)
copy_keys_overwriting(span, ctx, keys) ==
    IF keys = <<>>
    THEN span
    ELSE copy_keys_overwriting(
            IF Truthy(get_baggage(ctx, Head(keys)))
            THEN set_attribute(span, Head(keys), get_baggage(ctx, Head(keys)))
            ELSE span,
            ctx, Tail(keys))

\* The loop of on_start over the keys still to do (lines 68-72).
RECURSIVE copy_keys(_, _, _)
copy_keys(span, ctx, keys) ==
    IF keys = <<>>
    THEN span
    ELSE LET key == Head(keys)
             value == get_baggage(ctx, key)
         IN copy_keys(
                IF Truthy(value)
                THEN (IF span.attributes = EmptyDict \/ ~Has(span.attributes, key)
                      THEN set_attribute(span, key, value)
                      ELSE span)
                ELSE span,
                ctx, Tail(keys))

\* RunContextEnricher(lean_mode).on_start(span, parent_context) with `current`
\* the context context.get_current() returns
on_start(lean_mode, span, parent_context, current) ==
    copy_keys(span, enricher_context(parent_context, current), baggage_keys(lean_mode))

\* Carriers a span can start under: every combination of the keys the
\* enricher reads being unset, set, or (use_case) set to the empty string.
EnricherCarriers ==
    { WithoutNone(
        [k \in {"botanu.run_id", "botanu.use_case", "botanu.workflow", "botanu.environment",
                 "botanu.tenant_id", "botanu.event_id"} |->
            CASE k = "botanu.run_id" -> r
              [] k = "botanu.use_case" -> u
              [] k = "botanu.workflow" -> w
              [] k = "botanu.environment" -> e
              [] k = "botanu.tenant_id" -> t
              [] OTHER -> "e1"]) :
        r \in {None, "r1"}, u \in {None, "", "Support"}, w \in {None, "W"},
        e \in {None, "dev"}, t \in {None, "t1"} }

\* Attributes a span is created with, before the processors see it.
InitialAttributes ==
    { EmptyDict,
      [k \in {"http.method"} |-> "GET"],
      [k \in {"botanu.run_id"} |-> "existing-id"],
      [k \in {"botanu.run_id", "botanu.workflow", "botanu.use_case", "http.method"} |->
          CASE k = "botanu.run_id" -> "existing-id"
            [] k = "botanu.workflow" -> "Mine"
            [] k = "botanu.use_case" -> ""
            [] OTHER -> "GET"] }

\* parent_context arguments: None, an empty Context, the context of an
\* upstream request.
ParentContexts == {Absent, Some(EmptyContext), Some(UpstreamContext)}

\* A span is started in context c with the attributes attrs; the tracer
\* provider calls on_start of the registered enricher.
SpanStarted(c, lean_mode, attrs, parent_context) ==
    /\ enriched' = Some(
            [lean_mode |-> lean_mode,
             parent_context |-> parent_context,
             before |-> [NewSpan EXCEPT !.attributes = attrs],
             after |-> on_start(lean_mode, [NewSpan EXCEPT !.attributes = attrs],
                                parent_context, ambient[c])])
    /\ UNCHANGED <<osenv, now, ambient, stack, ledger, bodyOps, chain, headArgs, attached, encoded, baggage, decoded, queried, procVars, helperVars>>

NextEnrich ==
    \E c \in Contexts, lean_mode \in BOOLEAN, attrs \in InitialAttributes, parent_context \in ParentContexts :
        SpanStarted(c, lean_mode, attrs, parent_context)

InitEnrich ==
    /\ osenv = EmptyDict
    /\ now = 0
    /\ ambient \in [Contexts -> {[baggage |-> b, span |-> 0] : b \in EnricherCarriers}]
    /\ stack = [c \in Contexts |-> <<>>]
    /\ ledger = [initialized |-> TRUE, sink |-> <<>>]
    /\ bodyOps = 0
    /\ chain = <<>>
    /\ headArgs = create_defaults
    /\ attached = [c \in Contexts |-> <<>>]
    /\ NoUnitCalls

SpecEnrich == InitEnrich /\ [][NextEnrich]_vars


\* ------------------------------------------------------------------------
\* Specification of the bootstrap (sdk/bootstrap.py): threads calling
\* enable() and disable()
\* ------------------------------------------------------------------------
\* No run scope is open and nothing has called the codec or the enricher.
ScopesIdle ==
    /\ osenv = EmptyDict
    /\ now = 0
    /\ ambient = [c \in Contexts |-> EmptyContext]
    /\ stack = [c \in Contexts |-> <<>>]
    /\ bodyOps = 0
    /\ chain = <<>>
    /\ headArgs = create_defaults
    /\ attached = [c \in Contexts |-> <<>>]
    /\ encoded = Absent
    /\ baggage = EmptyDict
    /\ decoded = Absent
    /\ queried = Absent
    /\ enriched = Absent
    /\ HelpersIdle

\* Thread t calls enable(config=cfg): it enters the lock and tests
\* _initialized (66-69); when that is False it stores the configuration (89)
\* and goes on to set the SDK up.
EnableCall(t, cfg) ==
    /\ boot.pc[t] = "idle"
    /\ boot.calls < MaxCalls
    /\ lock_acquirable(boot.lock, t)
    /\ boot' = IF boot.initialized
               THEN [boot EXCEPT !.calls = @ + 1,
                                 !.falses = @ + 1,
                                 !.last = Some([op |-> "enable", thread |-> t, result |-> "False",
                                                outcome |-> "already_initialized"])]
               ELSE [boot EXCEPT !.calls = @ + 1,
                                 !.lock = t,
                                 !.config = cfg,
                                 !.pc[t] = "setup"]
    /\ UNCHANGED <<osenv, now, ambient, stack, ledger, bodyOps, chain, headArgs, attached,
                   encoded, baggage, decoded, queried, enriched, registry, lcall, served, helperVars>>

\* Thread t runs the rest of enable() (109-199), leaves the lock and returns.
EnableSetup(t, outcome) ==
    /\ boot.pc[t] = "setup"
    /\ LET r == setup(boot, outcome)
       IN boot' = [r.state EXCEPT !.lock = None,
                                  !.pc[t] = "idle",
                                  !.trues = IF r.result THEN @ + 1 ELSE @,
                                  !.falses = IF r.result THEN @ ELSE @ + 1,
                                  !.failed = IF r.result THEN @ ELSE @ + 1,
                                  !.last = Some([op |-> "enable", thread |-> t,
                                                 result |-> IF r.result THEN "True" ELSE "False",
                                                 outcome |-> outcome])]
    /\ UNCHANGED <<osenv, now, ambient, stack, ledger, bodyOps, chain, headArgs, attached,
                   encoded, baggage, decoded, queried, enriched, registry, lcall, served, helperVars>>

\* Thread t calls disable() (356-381), all of it inside the lock.
DisableCall(t, outcome) ==
    /\ boot.pc[t] = "idle"
    /\ boot.calls < MaxCalls
    /\ lock_acquirable(boot.lock, t)
    /\ boot' = IF ~boot.initialized
               THEN [boot EXCEPT !.calls = @ + 1,
                                 !.last = Some([op |-> "disable", thread |-> t, result |-> "None",
                                                outcome |-> "not_initialized"])]
               ELSE LET s == shutdown_sdk(boot, outcome)
                    IN [s EXCEPT !.calls = @ + 1,
                                 !.trues = IF s.initialized THEN @ ELSE 0,
                                 !.falses = IF s.initialized THEN @ ELSE 0,
                                 !.failed = IF s.initialized THEN @ ELSE 0,
                                 !.last = Some([op |-> "disable", thread |-> t, result |-> "None",
                                                outcome |-> outcome])]
    /\ UNCHANGED <<osenv, now, ambient, stack, ledger, bodyOps, chain, headArgs, attached,
                   encoded, baggage, decoded, queried, enriched, registry, lcall, served, helperVars>>

NextBoot ==
    \E t \in BootThreads :
        \/ \E cfg \in {"cfgA", "cfgB"} : EnableCall(t, cfg)
        \/ \E outcome \in {"ok", "fails_before_registering", "fails_after_registering"} :
              EnableSetup(t, outcome)
        \/ \E outcome \in {"ok", "flush_raises", "shutdown_raises"} : DisableCall(t, outcome)

\* The application may have installed an SDK TracerProvider of its own before
\* it calls enable() (line 156).
InitBoot ==
    /\ ScopesIdle
    /\ ledger = [initialized |-> TRUE, sink |-> <<>>]
    /\ boot \in {[BootIdle EXCEPT !.provider.sdk = s] : s \in BOOLEAN}
    /\ registry = RegistryIdle
    /\ lcall = Absent
    /\ served = Absent

SpecBoot == InitBoot /\ [][NextBoot]_vars


\* ------------------------------------------------------------------------
\* Specification of the span enricher with failing collaborators
\* ------------------------------------------------------------------------
\* on_start (lines 60-72) when a collaborator raises: fault names the call
\* that does, baggage.get_baggage (line 69, reached for the first key) or
\* span.set_attribute (line 72, reached when some key is to be copied).
\* on_start has no exception handler: the exception leaves it.
on_start_outcome(lean_mode, span, parent_context, current, fault) ==
    LET done == on_start(lean_mode, span, parent_context, current)
    IN CASE fault = "get_baggage" -> [raised |-> "Exception", span |-> span]
         [] fault = "set_attribute" /\ done # span -> [raised |-> "Exception", span |-> span]
         [] OTHER -> [raised |-> None, span |-> done]

\* A span is started in context c; the tracer provider calls on_start of the
\* registered enricher, whose collaborators may fail.
SpanStartedFaulty(c, lean_mode, attrs, parent_context, fault) ==
    /\ enriched' = Some(
            [lean_mode |-> lean_mode,
             parent_context |-> parent_context,
             fault |-> fault,
             before |-> [NewSpan EXCEPT !.attributes = attrs],
             raised |-> on_start_outcome(lean_mode, [NewSpan EXCEPT !.attributes = attrs],
                                         parent_context, ambient[c], fault).raised,
             after |-> on_start_outcome(lean_mode, [NewSpan EXCEPT !.attributes = attrs],
                                        parent_context, ambient[c], fault).span])
    /\ UNCHANGED <<osenv, now, ambient, stack, ledger, bodyOps, chain, headArgs, attached, encoded, baggage, decoded, queried, procVars, helperVars>>

NextEnrichFault ==
    \E c \in Contexts, lean_mode \in BOOLEAN, attrs \in InitialAttributes, parent_context \in ParentContexts,
       fault \in {"none", "get_baggage", "set_attribute"} :
        SpanStartedFaulty(c, lean_mode, attrs, parent_context, fault)

SpecEnrichFault == InitEnrich /\ [][NextEnrichFault]_vars


\* ------------------------------------------------------------------------
\* Specification of one AttemptLedger (tracking/ledger.py)
\* ------------------------------------------------------------------------
\* One of the eight emission methods is called.
LedgerEmit(op, run_id, span, sink_fails) ==
    /\ (IF lcall = Absent THEN 0 ELSE lcall[1].n) < MaxCalls
    /\ LET r == emit(ledger, op, run_id, span, sink_fails)
       IN /\ ledger' = r.ledger
          /\ lcall' = Some([n |-> (IF lcall = Absent THEN 0 ELSE lcall[1].n) + 1,
                            op |-> op, span |-> span, failed |-> sink_fails,
                            raised |-> r.raised, returned |-> "None"])
    /\ UNCHANGED <<osenv, now, ambient, stack, bodyOps, chain, headArgs, attached,
                   encoded, baggage, decoded, queried, enriched, boot, registry, served, helperVars>>

\* AttemptLedger.flush (354-366): True without a logger; otherwise what the
\* logger provider's force_flush returns, True when it has no such method,
\* False when it raises.
LedgerFlush(outcome) ==
    /\ (IF lcall = Absent THEN 0 ELSE lcall[1].n) < MaxCalls
    /\ lcall' = Some([n |-> (IF lcall = Absent THEN 0 ELSE lcall[1].n) + 1,
                      op |-> "flush", span |-> "none",
                      failed |-> ledger.initialized /\ outcome \in {"timeout", "raises"},
                      raised |-> None,
                      returned |-> IF ledger.initialized /\ outcome \in {"timeout", "raises"}
                                   THEN "False" ELSE "True"])
    /\ UNCHANGED <<osenv, now, ambient, stack, ledger, bodyOps, chain, headArgs, attached,
                   encoded, baggage, decoded, queried, enriched, boot, registry, served, helperVars>>

\* AttemptLedger.shutdown (368-378): returns without a value, whether or not
\* the provider's shutdown raised.
LedgerShutdown(outcome) ==
    /\ (IF lcall = Absent THEN 0 ELSE lcall[1].n) < MaxCalls
    /\ lcall' = Some([n |-> (IF lcall = Absent THEN 0 ELSE lcall[1].n) + 1,
                      op |-> "shutdown", span |-> "none",
                      failed |-> ledger.initialized /\ outcome = "raises",
                      raised |-> None,
                      returned |-> "None"])
    /\ UNCHANGED <<osenv, now, ambient, stack, ledger, bodyOps, chain, headArgs, attached,
                   encoded, baggage, decoded, queried, enriched, boot, registry, served, helperVars>>

NextLedger ==
    \/ \E op \in DOMAIN event_type, span \in {"none", "sampled", "unsampled"}, sink_fails \in BOOLEAN :
          LedgerEmit(op, "r1", span, sink_fails)
    \/ \E outcome \in {"ok", "no_method", "timeout", "raises"} : LedgerFlush(outcome)
    \/ \E outcome \in {"ok", "raises"} : LedgerShutdown(outcome)

\* _initialize_logger (70-100) has run in __post_init__ and has found the
\* OTel logs SDK, or has failed.
InitLedger ==
    /\ ScopesIdle
    /\ ledger \in {[initialized |-> b, sink |-> <<>>] : b \in BOOLEAN}
    /\ boot = BootIdle
    /\ registry = RegistryIdle
    /\ lcall = Absent
    /\ served = Absent

SpecLedger == InitLedger /\ [][NextLedger]_vars


\* ------------------------------------------------------------------------
\* Specifications of the global ledger: one caller, and concurrent callers
\* ------------------------------------------------------------------------
\* Thread t calls get_ledger() (mode "get") or the record_* function of
\* method mode: it tests _global_ledger (396); when that is None it calls
\* _create_default_ledger, which returns the cached default or, on a miss,
\* goes on to construct one.
GetLedgerCall(t, mode) ==
    /\ registry.pc[t] = "idle"
    /\ registry.calls < MaxCalls
    /\ LET r == [registry EXCEPT !.calls = @ + 1, !.mode[t] = mode]
       IN registry' =
            IF r.global # None THEN [r EXCEPT !.pc[t] = "return_global"]
            ELSE IF r.cache # Absent THEN get_ledger_returns(r, t, r.cache[1])
            ELSE [r EXCEPT !.pc[t] = "constructing"]
    /\ UNCHANGED <<osenv, now, ambient, stack, ledger, bodyOps, chain, headArgs, attached,
                   encoded, baggage, decoded, queried, enriched, boot, lcall, served, helperVars>>

\* `return _global_ledger` (397): the global is read again.
GetLedgerReturnsGlobal(t) ==
    /\ registry.pc[t] = "return_global"
    /\ registry' = get_ledger_returns(registry, t, registry.global)
    /\ UNCHANGED <<osenv, now, ambient, stack, ledger, bodyOps, chain, headArgs, attached,
                   encoded, baggage, decoded, queried, enriched, boot, lcall, served, helperVars>>

\* AttemptLedger() has been constructed for thread t's call of
\* _create_default_ledger (388-391): lru_cache stores the result unless the
\* key was stored meanwhile, and returns the result of this call.
DefaultLedgerConstructed(t) ==
    /\ registry.pc[t] = "constructing"
    /\ LET inst == "d" \o DecStr(registry.made + 1)
       IN registry' = get_ledger_returns(
                        [registry EXCEPT !.made = @ + 1,
                                         !.cache = IF @ = Absent THEN Some(inst) ELSE @],
                        t, inst)
    /\ UNCHANGED <<osenv, now, ambient, stack, ledger, bodyOps, chain, headArgs, attached,
                   encoded, baggage, decoded, queried, enriched, boot, lcall, served, helperVars>>

\* Thread t calls set_ledger(L).
SetLedgerCall(t, L) ==
    /\ registry.pc[t] = "idle"
    /\ registry.calls < MaxCalls
    /\ registry' = [set_ledger(registry, L) EXCEPT !.calls = @ + 1, !.lastSet = Some(L)]
    /\ UNCHANGED <<osenv, now, ambient, stack, ledger, bodyOps, chain, headArgs, attached,
                   encoded, baggage, decoded, queried, enriched, boot, lcall, served, helperVars>>

\* What the threads in T can do.
GlobalLedgerCalls(T) ==
    \E t \in T :
        \/ \E mode \in {"get", "attempt_started", "attempt_ended", "llm_attempted", "tool_attempted"} :
              GetLedgerCall(t, mode)
        \/ GetLedgerReturnsGlobal(t)
        \/ DefaultLedgerConstructed(t)
        \/ \E L \in {"L1", "L2"} : SetLedgerCall(t, L)

InitGlobal ==
    /\ ScopesIdle
    /\ ledger = [initialized |-> TRUE, sink |-> <<>>]
    /\ boot = BootIdle
    /\ registry = RegistryIdle
    /\ lcall = Absent
    /\ served = Absent

\* One thread: each call returns before the next is made.
NextGlobal == GlobalLedgerCalls({"th1"})

SpecGlobal == InitGlobal /\ [][NextGlobal]_vars

\* Several threads: calls overlap.
NextGlobalConc == GlobalLedgerCalls(BootThreads)

SpecGlobalConc == InitGlobal /\ [][NextGlobalConc]_vars


\* ------------------------------------------------------------------------
\* Specification of the request middleware (sdk/middleware.py): requests
\* handled one after another in execution context "main"
\* ------------------------------------------------------------------------
\* BotanuMiddleware(app, use_case="uc") handles a request with the given
\* x-botanu-run-id, x-botanu-use-case, x-botanu-workflow and
\* x-botanu-customer-id headers (None when not sent), up to the call of the
\* downstream handler (lines 60-92): the identity is
\* taken from the ambient carrier, else from the headers, else generated
\* (run_id, when auto_generate_run_id) or defaulted; each value is written to
\* the current span and to the carrier with set_baggage, which attaches a
\* new context and whose token dispatch drops.
DispatchBegin(c, run_id_header, use_case_header, workflow_header, customer_id_header, auto_generate_run_id) ==
    /\ IF served = Absent THEN TRUE ELSE served[1].pc = "done" /\ served[1].n < MaxCalls
    /\ LET n == IF served = Absent THEN 1 ELSE served[1].n + 1
           found == Or(get_baggage(ambient[c], "botanu.run_id"), run_id_header)
           run_id == IF ~Truthy(found) /\ auto_generate_run_id THEN "uuid" \o DecStr(n) ELSE found
           use_case == Or(Or(get_baggage(ambient[c], "botanu.use_case"), use_case_header), "uc")
           workflow == Or(Or(get_baggage(ambient[c], "botanu.workflow"), workflow_header), "uc")
           customer_id == Or(get_baggage(ambient[c], "botanu.customer_id"), customer_id_header)
           d == [k \in {"botanu.use_case", "botanu.workflow"}
                        \cup (IF Truthy(run_id) THEN {"botanu.run_id"} ELSE {})
                        \cup (IF Truthy(customer_id) THEN {"botanu.customer_id"} ELSE {}) |->
                    CASE k = "botanu.use_case" -> use_case
                      [] k = "botanu.workflow" -> workflow
                      [] k = "botanu.run_id" -> run_id
                      [] OTHER -> customer_id]
       IN /\ ambient' = [ambient EXCEPT ![c] = set_baggage_all(@, d)]
          /\ attached' = [attached EXCEPT ![c] = @ \o [i \in 1..Cardinality(DOMAIN d) |-> ambient[c]]]
          /\ served' = Some([n |-> n, pc |-> "handling",
                             before |-> ambient[c],
                             tokens |-> Len(attached[c]),
                             run_id |-> run_id,
                             attributes |-> Update(d, [k \in {"http.route", "http.method"} |->
                                                          IF k = "http.route" THEN "/" ELSE "GET"]),
                             response |-> None])
    /\ UNCHANGED <<osenv, now, stack, ledger, bodyOps, chain, headArgs,
                   encoded, baggage, decoded, queried, enriched, boot, registry, lcall, helperVars>>

\* The downstream handler returns a response, to which dispatch adds the
\* identity headers (94-99), or raises, which ends dispatch at line 92.
\* dispatch detaches nothing on either path.
DispatchEnd(c, raises) ==
    /\ served # Absent
    /\ served[1].pc = "handling"
    /\ served' = Some([served[1] EXCEPT
                          !.pc = "done",
                          !.response = IF raises THEN "raised" ELSE served[1].run_id])
    /\ UNCHANGED <<osenv, now, ambient, stack, ledger, bodyOps, chain, headArgs, attached,
                   encoded, baggage, decoded, queried, enriched, boot, registry, lcall, helperVars>>

NextMiddleware ==
    \E c \in Contexts :
        \/ \E run_id_header \in {None, "leak-test-001"}, use_case_header \in {None, "header_uc"},
              workflow_header \in {None, "multi-wf"}, customer_id_header \in {None, "c1"},
              auto_generate_run_id \in BOOLEAN :
              DispatchBegin(c, run_id_header, use_case_header, workflow_header, customer_id_header,
                            auto_generate_run_id)
        \/ \E raises \in BOOLEAN : DispatchEnd(c, raises)

InitMiddleware ==
    /\ ScopesIdle
    /\ ledger = [initialized |-> TRUE, sink |-> <<>>]
    /\ boot = BootIdle
    /\ registry = RegistryIdle
    /\ lcall = Absent
    /\ served = Absent

SpecMiddleware == InitMiddleware /\ [][NextMiddleware]_vars


\* ------------------------------------------------------------------------
\* Specifications of the identity generator, the tracker scopes and the
\* outcome decorator
\* ------------------------------------------------------------------------
\* What these three specifications leave alone.
restVars == <<osenv, now, ambient, stack, ledger, bodyOps, chain, headArgs, attached,
              encoded, baggage, decoded, queried, enriched, procVars>>

\* The process with nothing going on.
InitHelpers ==
    /\ ScopesIdle
    /\ ledger = [initialized |-> TRUE, sink |-> <<>>]
    /\ boot = BootIdle
    /\ registry = RegistryIdle
    /\ lcall = Absent
    /\ served = Absent

\* Clock readings in milliseconds as [hi, lo] halves of 24 bits: the low
\* readings, readings on both sides of every byte boundary of the low half,
\* a reading of the year 2026 (hi = 106700), the last one below 2^48 and
\* the first one not below it.
Timestamps ==
    {[hi |-> h, lo |-> l] : h \in {0, 1, 255, 256, 106700, 16777215}, l \in {0, 255, 256, 65535, 65536, 16777215}}
        \cup {[hi |-> 16777216, lo |-> 0]}

\* Values of os.urandom(10)
RandomBytes ==
    { <<0, 0, 0, 0, 0, 0, 0, 0, 0, 0>>,
      <<255, 255, 255, 255, 255, 255, 255, 255, 255, 255>>,
      <<171, 18, 197, 52, 0, 255, 9, 160, 7, 250>> }

\* generate_run_id() is called while the clock reads timestamp_ms.
GenerateRunId(timestamp_ms, random_bytes) ==
    /\ Len(generated) < 2
    /\ generated' = Append(generated,
            [timestamp_ms |-> timestamp_ms, id |-> generate_run_id(timestamp_ms, random_bytes)])
    /\ UNCHANGED <<restVars, track, decorated>>

NextIds == \E timestamp_ms \in Timestamps, random_bytes \in RandomBytes : GenerateRunId(timestamp_ms, random_bytes)

SpecIds == InitHelpers /\ [][NextIds]_vars

\* tenacity starts attempt loop + 1 of the retried function and calls the
\* before callback with it.
RetryBefore ==
    /\ track.open = Absent
    /\ track.loop < MaxCalls
    /\ track' = [botanu_before(track, track.loop + 1) EXCEPT
                    !.loop = track.loop + 1, !.after_ran = FALSE, !.last = Absent]
    /\ UNCHANGED <<restVars, decorated, generated>>

\* The retry loop ends; with after_all the after callback botanu_after_all
\* runs, without it the loop was configured with no after callback or the
\* last attempt succeeded.
RetryEnds(after_all) ==
    /\ track.open = Absent
    /\ track.loop > 0
    /\ track' = [(IF after_all THEN botanu_after_all(track) ELSE track) EXCEPT
                    !.finished = track.loop, !.loop = 0, !.after_ran = after_all, !.last = Absent]
    /\ UNCHANGED <<restVars, decorated, generated>>

\* The with statement of a tracker scope is entered.
TrackEnter(kind) ==
    /\ track.open = Absent
    /\ track.calls < MaxCalls
    /\ track' = [track EXCEPT !.open = Some(IF kind = "llm" THEN track_llm_call ELSE track_tool_call),
                              !.last = Absent,
                              !.calls = @ + 1]
    /\ UNCHANGED <<restVars, decorated, generated>>

\* The body calls tracker.set_attempt(n).
TrackSetAttempt(n) ==
    /\ track.open # Absent
    /\ track.open[1].kind = "llm"
    /\ track.open[1].ops < MaxBodyOps
    /\ track' = [track EXCEPT !.open = Some([set_attempt(track.open[1], n) EXCEPT !.ops = @ + 1])]
    /\ UNCHANGED <<restVars, decorated, generated>>

\* The body catches an error of class cls itself and calls
\* tracker.set_error(error).
TrackSetError(cls) ==
    /\ track.open # Absent
    /\ track.open[1].ops < MaxBodyOps
    /\ track' = [track EXCEPT !.open = Some([set_error(track.open[1], cls) EXCEPT !.ops = @ + 1])]
    /\ UNCHANGED <<restVars, decorated, generated>>

\* The body is left (433-439 / 577-583): by return, by an Exception of class
\* cls (set_error, re-raise) or by a cancellation (a BaseException, which
\* `except Exception` does not match); the finally block runs _finalize.
\* Leaving the span's with block with an exception in flight, the tracer
\* records an Exception on the span; whether it marks a BaseException
\* depends on the installed opentelemetry version.
TrackExit(how, cls, tracerMarks) ==
    /\ track.open # Absent
    /\ LET t0 == track.open[1]
           t1 == IF how = "raise" THEN set_error(t0, cls) ELSE t0
           f == finalize(track, t1)
           s1 == CASE how = "raise" ->
                        add_event(set_status(f.tracker.span, "ERROR"), "exception",
                                  [k \in {"exception.type"} |-> cls])
                   [] how = "cancel" /\ tracerMarks ->
                        add_event(set_status(f.tracker.span, "ERROR"), "exception",
                                  [k \in {"exception.type"} |-> CancelledError])
                   [] OTHER -> f.tracker.span
       IN track' = [f.track EXCEPT
               !.open = Absent,
               !.last = Some([tracker |-> [f.tracker EXCEPT !.span = end_span(s1)],
                              exit |-> how,
                              raised |-> CASE how = "raise" -> cls [] how = "cancel" -> CancelledError [] OTHER -> None,
                              exc |-> CASE how = "raise" -> cls [] how = "cancel" -> CancelledError [] OTHER -> None,
                              loop |-> track.loop,
                              finished |-> track.finished,
                              after_ran |-> track.after_ran])]
    /\ UNCHANGED <<restVars, decorated, generated>>

NextTrack ==
    \/ RetryBefore
    \/ \E after_all \in BOOLEAN : RetryEnds(after_all)
    \/ \E kind \in {"llm", "tool"} : TrackEnter(kind)
    \/ \E n \in {7} : TrackSetAttempt(n)
    \/ \E cls \in ErrorClasses : TrackSetError(cls)
    \/ TrackExit("return", None, FALSE)
    \/ \E cls \in ErrorClasses : TrackExit("raise", cls, FALSE)
    \/ \E tracerMarks \in BOOLEAN : TrackExit("cancel", None, tracerMarks)

SpecTrack == InitHelpers /\ [][NextTrack]_vars

\* A function wrapped by botanu_outcome is called while a recording span is
\* current; before is the status code before the call emitted on that span
\* with emit_outcome (None: it emitted nothing).
OutcomeCall(before) ==
    /\ decorated = Absent
    /\ decorated' = Some([pc |-> "body",
                          span |-> IF before = None THEN NewSpan ELSE emit_outcome(NewSpan, before),
                          first |-> before, ops |-> 0, at_exit |-> NewSpan,
                          exit |-> None, raised |-> None, exc |-> None])
    /\ UNCHANGED <<restVars, track, generated>>

\* The wrapped function calls emit_outcome(status) on the current span.
OutcomeBodyEmits(status) ==
    /\ decorated # Absent
    /\ decorated[1].pc = "body"
    /\ decorated[1].ops < MaxBodyOps
    /\ decorated' = Some([decorated[1] EXCEPT
            !.span = emit_outcome(@, status),
            !.first = IF @ = None THEN status ELSE @,
            !.ops = @ + 1])
    /\ UNCHANGED <<restVars, track, generated>>

\* The wrapped function sets the attribute botanu.outcome.status on the
\* current span itself.
OutcomeBodySetsAttribute(status) ==
    /\ decorated # Absent
    /\ decorated[1].pc = "body"
    /\ decorated[1].ops < MaxBodyOps
    /\ decorated' = Some([decorated[1] EXCEPT
            !.span = set_attribute(@, "botanu.outcome.status", status),
            !.ops = @ + 1])
    /\ UNCHANGED <<restVars, track, generated>>

\* The wrapped function returns: lines 306-312.
OutcomeReturn ==
    /\ decorated # Absent
    /\ decorated[1].pc = "body"
    /\ decorated' = Some([decorated[1] EXCEPT
            !.pc = "done", !.exit = "return",
            !.at_exit = decorated[1].span,
            !.span = botanu_outcome_returned(@)])
    /\ UNCHANGED <<restVars, track, generated>>

\* The wrapped function raises an Exception of class cls: lines 313-315.
OutcomeRaise(cls) ==
    /\ decorated # Absent
    /\ decorated[1].pc = "body"
    /\ decorated' = Some([decorated[1] EXCEPT
            !.pc = "done", !.exit = "raise", !.raised = cls, !.exc = cls,
            !.at_exit = decorated[1].span,
            !.span = botanu_outcome_raised(@, cls)])
    /\ UNCHANGED <<restVars, track, generated>>

NextOutcome ==
    \/ \E before \in {None} \cup VALID_OUTCOME_STATUSES : OutcomeCall(before)
    \/ \E status \in VALID_OUTCOME_STATUSES : OutcomeBodyEmits(status)
    \/ \E status \in {"partial"} : OutcomeBodySetsAttribute(status)
    \/ OutcomeReturn
    \/ \E cls \in ErrorClasses : OutcomeRaise(cls)

SpecOutcome == InitHelpers /\ [][NextOutcome]_vars


\* ------------------------------------------------------------------------
\* Properties
\* ------------------------------------------------------------------------
\* Positions of the events called name on a span.
EventsNamed(span, name) == {i \in DOMAIN span.events : span.events[i].name = name}

\* The scope on top of context c has been left (the caller has the result in
\* hand) after its wrapped code ran.
Left(c) == IF stack[c] = <<>> THEN FALSE ELSE Top(c).pc = "Exited" /\ Top(c).exit # "invalid"
LeftBy(c, how) == IF stack[c] = <<>> THEN FALSE ELSE Top(c).pc = "Exited" /\ Top(c).exit = how

\* C1: once a run scope has been left - by return, by an error or by
\* cancellation - the ambient context equals the one before entry; a scope
\* nested in another leaves the outer run's run_id ambient, and a scope
\* entered with no ambient run leaves none.
C1_CarrierRestoredOnExit ==
    \A c \in Contexts :
        Left(c) =>
            /\ ambient[c] = Top(c).pre
            /\ Len(stack[c]) >= 2 =>
                 get_baggage(ambient[c], "botanu.run_id") = stack[c][Len(stack[c]) - 1].run_ctx[1].run_id
            /\ ~Has(Top(c).pre.baggage, "botanu.run_id") =>
                 get_baggage(ambient[c], "botanu.run_id") = None

\* A nested async scope has been left by cancellation and the outer run is
\* ambient again.
C1_Witness ==
    \E c \in Contexts :
        /\ LeftBy(c, "cancel")
        /\ Len(stack[c]) = 2
        /\ get_baggage(ambient[c], "botanu.run_id") = stack[c][1].run_ctx[1].run_id
        /\ Top(c).run_ctx[1].run_id # stack[c][1].run_ctx[1].run_id

\* C2: an outcome set explicitly inside the scope survives a normal exit: the
\* run context keeps the status given to complete(), the span's
\* botanu.outcome.status is the status the application emitted.
C2_OutcomeWriteOnce ==
    \A c \in Contexts :
        LeftBy(c, "return") =>
            /\ Top(c).explicit # None => Top(c).run_ctx[1].outcome[1].status = Top(c).explicit
            /\ Top(c).emitted # None =>
                 Get(Top(c).span[1].attributes, "botanu.outcome.status") = Top(c).emitted

\* C3: when the wrapped code raises an error E the span is marked failed, the
\* outcome is failure with E's class, exactly one completed marker says
\* failure with that class, and E itself reaches the caller.
C3_FailureTransition ==
    \A c \in Contexts :
        LeftBy(c, "raise") =>
            LET f == Top(c)
                span == f.span[1]
                done == EventsNamed(span, "botanu.run.completed")
            IN /\ span.status = "ERROR"
               /\ f.run_ctx[1].outcome # Absent
               /\ f.run_ctx[1].outcome[1].status = FAILURE
               /\ f.run_ctx[1].outcome[1].error_class = f.raised
               /\ Cardinality(done) = 1
               /\ \A i \in done :
                    /\ span.events[i].attributes["status"] = FAILURE
                    /\ Get(span.events[i].attributes, "error_class") = f.raised
               /\ f.exc = f.raised

\* The wrapped code raised ValueError after the application had completed the
\* run context itself.
C3_Witness ==
    \E c \in Contexts :
        /\ LeftBy(c, "raise")
        /\ Top(c).raised = "ValueError"
        /\ Top(c).explicit # None

\* C4: cancellation thrown into an async scope takes the failure transition:
\* error_class of the cancellation recorded, completed marker with status
\* failure, carrier detached, cancellation propagated.
C4_CancellationIsFailure ==
    \A c \in Contexts :
        LeftBy(c, "cancel") =>
            LET f == Top(c)
                span == f.span[1]
                done == EventsNamed(span, "botanu.run.completed")
            IN /\ f.run_ctx[1].outcome # Absent
               /\ f.run_ctx[1].outcome[1].status = FAILURE
               /\ f.run_ctx[1].outcome[1].error_class = CancelledError
               /\ Cardinality(done) = 1
               /\ \A i \in done : span.events[i].attributes["status"] = FAILURE
               /\ ambient[c] = f.pre
               /\ f.exc = CancelledError

\* C5: a scope whose resolved event_id or customer_id is empty fails with an
\* invalid-argument error before a RunContext, a span or a carrier attach
\* exists, and its wrapped code never runs.
C5_EmptyIdsRejectedAtEntry ==
    \A c \in Contexts :
        \A i \in DOMAIN stack[c] :
            (stack[c][i].event_id = "" \/ stack[c][i].customer_id = "") =>
                /\ stack[c][i].exit = "invalid"
                /\ stack[c][i].exc = "ValueError"
                /\ stack[c][i].run_ctx = Absent
                /\ stack[c][i].span = Absent
                /\ ~stack[c][i].bodyRan

\* C6: RunContext.create with an empty event_id or customer_id returns no
\* RunContext and leaves the carrier alone.
C6_CreateRejectsEmptyIds ==
    (headArgs.event_id = "" \/ headArgs.customer_id = "") =>
        /\ chain = <<>>
        /\ \A c \in Contexts : ambient[c] = EmptyContext

\* The stable part of a retry chain: every attempt points at the head, counts
\* from one, links to its predecessor and carries the head's identity fields.
GenealogyStable ==
    \A i \in DOMAIN chain :
        /\ chain[i].root_run_id = chain[1].run_id
        /\ chain[i].attempt = i
        /\ i >= 2 => chain[i].retry_of_run_id = chain[i - 1].run_id
        /\ chain[i].workflow = chain[1].workflow
        /\ chain[i].event_id = chain[1].event_id
        /\ chain[i].customer_id = chain[1].customer_id
        /\ chain[i].workflow_version = chain[1].workflow_version
        /\ chain[i].environment = chain[1].environment
        /\ chain[i].tenant_id = chain[1].tenant_id
        /\ chain[i].parent_run_id = chain[1].parent_run_id

\* The head was created as a first attempt: create was not handed a
\* root_run_id, an attempt number or a retry_of_run_id.
HeadIsFirstAttempt ==
    /\ headArgs.root_run_id = None
    /\ headArgs.attempt = 1
    /\ headArgs.retry_of_run_id = None

\* C7 as stated: genealogy is stable along every chain whose head comes from
\* RunContext.create, whatever create was called with.
C7_GenealogyStableAnyHead == GenealogyStable

\* C7 amended: genealogy is stable along every chain whose head was created
\* as a first attempt.
C7_GenealogyStable == HeadIsFirstAttempt => GenealogyStable

\* A chain of three attempts that starts from a first attempt.
C7_Witness ==
    /\ Len(chain) = 3
    /\ HeadIsFirstAttempt
    /\ chain[3].retry_of_run_id = chain[2].run_id
    /\ chain[2].run_id # chain[1].run_id

\* The root_run_id of the run that is ambient in the context value cv: the
\* carrier's root_run_id, the run's own id when the carrier names no root.
AmbientRootRunId(cv) == Or(get_baggage(cv, "botanu.root_run_id"), get_baggage(cv, "botanu.run_id"))

C9_CompletionOnLedger ==
    \A c \in Contexts :
        (LeftBy(c, "return") \/ LeftBy(c, "raise")) =>
            LET f == Top(c)
                recs == {i \in DOMAIN ledger.sink :
                            /\ ledger.sink[i].name = "attempt.ended"
                            /\ ledger.sink[i].run_id = f.run_ctx[1].run_id}
            IN /\ Cardinality(recs) = 1
               /\ \A i \in recs :
                    /\ ledger.sink[i].status = IF f.exit = "return" THEN SUCCESS ELSE FAILURE
                    /\ f.exit = "raise" => ledger.sink[i].error_class = f.raised

\* C10: every invocation puts exactly one started marker on its span before
\* the wrapped code runs and exactly one completed marker after it, success if
\* and only if the code returned and failure if and only if it raised, and
\* the completed marker is the last marker.
C10_ScopeLifecycle ==
    \A c \in Contexts :
        \A i \in DOMAIN stack[c] :
            stack[c][i].span # Absent =>
                LET f == stack[c][i]
                    span == f.span[1]
                    started == EventsNamed(span, "botanu.run.started")
                    done == EventsNamed(span, "botanu.run.completed")
                    markers == started \cup done
                IN /\ started = {1}
                   /\ f.pc = "Running" => done = {}
                   /\ f.pc = "Exited" =>
                        /\ Cardinality(done) = 1
                        /\ \A j \in done :
                             /\ \A k \in markers : k <= j
                             /\ span.events[j].attributes["status"] = SUCCESS <=> f.exit = "return"
                             /\ span.events[j].attributes["status"] = FAILURE <=> f.exit \in {"raise", "cancel"}

\* The scopes of context c whose wrapped code is running.
OpenScopes(c) == {i \in DOMAIN stack[c] : stack[c][i].pc = "Running"}

\* C11: in every execution context the carrier tokens attached and not yet
\* detached are exactly one per open run scope, each the token its scope got
\* at entry, however many keys the carrier holds; a scope that has been left
\* has no token outstanding.
C11_OneTokenPerOpenScope ==
    \A c \in Contexts :
        /\ Len(attached[c]) = Cardinality(OpenScopes(c))
        /\ \A i \in OpenScopes(c) :
             /\ i <= Len(attached[c])
             /\ attached[c][i] = stack[c][i].token[1]

\* In full propagation mode (more than the four lean keys on the carrier) a
\* scope nested in an open scope has been left by an error: its token is
\* gone, the outer scope's token is the one outstanding.
C11_Witness ==
    \E c \in Contexts :
        /\ Len(stack[c]) = 2
        /\ OpenScopes(c) = {1}
        /\ LeftBy(c, "raise")
        /\ attached[c] = <<stack[c][1].token[1]>>
        /\ Cardinality(DOMAIN ambient[c].baggage) > 4

\* The application code of two scopes behaves the same: the same explicit
\* outcome calls, the same way out, the same error. A scope rejected at
\* decoration time has run no code to compare.
SameBody(f, g) ==
    /\ f.explicit = g.explicit
    /\ f.emitted = g.emitted
    /\ (f.bodyRan /\ g.bodyRan) => (f.raised = g.raised /\ f.auto = g.auto)

\* The span attributes that give a run its identity, without the values
\* that differ from run to run (run_id, root_run_id, start time, duration).
IdentityAttributes(span) ==
    [k \in (DOMAIN span.attributes) \ {"botanu.run_id", "botanu.root_run_id",
                                       "botanu.run.start_time", "botanu.run.duration_ms"} |->
        span.attributes[k]]

\* The effects of a scope an observer sees.
SameEffects(f, g) ==
    /\ (f.exit = "invalid") <=> (g.exit = "invalid")
    /\ f.exc = g.exc
    /\ (f.span = Absent) <=> (g.span = Absent)
    /\ (f.span # Absent /\ g.span # Absent) =>
         /\ IdentityAttributes(f.span[1]) = IdentityAttributes(g.span[1])
         /\ [i \in DOMAIN f.span[1].events |-> f.span[1].events[i].name]
              = [i \in DOMAIN g.span[1].events |-> g.span[1].events[i].name]
         /\ f.span[1].status = g.span[1].status
    /\ (f.run_ctx = Absent) <=> (g.run_ctx = Absent)
    /\ (f.run_ctx # Absent /\ g.run_ctx # Absent) =>
         /\ (f.run_ctx[1].outcome = Absent) <=> (g.run_ctx[1].outcome = Absent)
         /\ (f.run_ctx[1].outcome # Absent /\ g.run_ctx[1].outcome # Absent) =>
              f.run_ctx[1].outcome[1].status = g.run_ctx[1].outcome[1].status

\* C12: a scope of botanu_workflow and a scope of run_botanu given the same
\* event_id and customer_id, entered under the same ambient context, whose
\* wrapped code behaves the same, have the same validation result, the same
\* identity attributes and markers on the span, the same carrier after exit,
\* the same final outcome and the same error reaching the caller.
C12_FormsEquivalent ==
    \A c \in Tasks, d \in Tasks :
        LET f == Top(c)
            g == Top(d)
        IN (/\ stack[c] # <<>> /\ stack[d] # <<>>
            /\ f.pc = "Exited" /\ g.pc = "Exited"
            /\ f.form \in {"sync", "async"} /\ g.form = "cm"
            /\ f.event_id = g.event_id /\ f.customer_id = g.customer_id
            /\ f.pre = g.pre
            /\ SameBody(f, g))
           => /\ SameEffects(f, g)
              /\ ambient[c] = ambient[d]

\* Inside every open scope the ambient run is the scope's own run and the
\* current span is the scope's own span; a scope that has been left has put
\* back the context its task had before; no two scopes share a run_id.
ScopesIsolated ==
    /\ \A c \in Tasks :
         /\ Running(c) =>
              /\ get_baggage(ambient[c], "botanu.run_id") = Top(c).run_ctx[1].run_id
              /\ CurrentSpanOwner(c) = Len(stack[c])
              /\ Get(Top(c).span[1].attributes, "botanu.run_id") = Top(c).run_ctx[1].run_id
         /\ Left(c) => ambient[c] = Top(c).pre
    /\ \A c \in Tasks, d \in Tasks :
         (c # d /\ stack[c] # <<>> /\ stack[d] # <<>>
               /\ Top(c).run_ctx # Absent /\ Top(d).run_ctx # Absent)
            => Top(c).run_ctx[1].run_id # Top(d).run_ctx[1].run_id

\* A step that changes one task's ambient context or open scopes changes
\* nothing of the other task's.
StepsLocal ==
    \A c \in Tasks, d \in Tasks :
        (c # d /\ (ambient'[c] # ambient[c] \/ stack'[c] # stack[c] \/ attached'[c] # attached[c]))
            => (ambient'[d] = ambient[d] /\ stack'[d] = stack[d] /\ attached'[d] = attached[d])

\* C13: two scopes in independent execution contexts are independent under
\* every interleaving of their steps: each sees its own run_id on the ambient
\* carrier, neither's attach or detach changes the other's carrier, each has
\* its own RunContext and span.
C13_ConcurrentScopesIndependent == [](ScopesIsolated) /\ [][StepsLocal]_vars

\* Both tasks are inside a scope at the same time, each with its own run
\* ambient, after application code ran in one of them.
C13_Witness ==
    /\ \A c \in Tasks : Running(c)
    /\ get_baggage(ambient["t1"], "botanu.run_id") # get_baggage(ambient["t2"], "botanu.run_id")
    /\ Top("t1").form = "async"
    /\ Top("t2").form = "sync"
    /\ bodyOps > 0

\* The context and the mode of the encode call whose result was decoded.
RoundTripDone == encoded # Absent /\ decoded # Absent

\* run_id, workflow, event_id, customer_id, tenant_id and attempt of the
\* decoded context equal those of the encoded context rc.
IdentityPreserved(rc) ==
    /\ decoded[1].raised = None
    /\ decoded[1].value # Absent
    /\ decoded[1].value[1].run_id = rc.run_id
    /\ decoded[1].value[1].workflow = rc.workflow
    /\ decoded[1].value[1].event_id = rc.event_id
    /\ decoded[1].value[1].customer_id = rc.customer_id
    /\ decoded[1].value[1].tenant_id = rc.tenant_id
    /\ decoded[1].value[1].attempt = rc.attempt

PeerDecoded == encoded = Absent /\ decoded # Absent

\* C15: decoding a carrier in which botanu.run_id or botanu.workflow is
\* missing or empty raises nothing and returns no context, whatever the other
\* keys hold.
C15_MissingMandatoryGivesNone ==
    (PeerDecoded /\ (~Truthy(Get(baggage, "botanu.run_id")) \/ ~Truthy(Get(baggage, "botanu.workflow"))))
      => (decoded[1].raised = None /\ decoded[1].value = Absent)

\* A carrier with a run_id, an empty workflow, a malformed attempt and a
\* non-finite deadline has been decoded.
C15_Witness ==
    /\ PeerDecoded
    /\ Get(baggage, "botanu.run_id") = UpstreamRunId
    /\ Get(baggage, "botanu.workflow") = ""
    /\ Get(baggage, "botanu.attempt") = "abc"
    /\ Get(baggage, "botanu.deadline") = "nan"
    /\ decoded[1].value = Absent

\* The text spells a decimal number: digits with an optional sign or
\* fraction, possibly inside white space.
IsDecimalNumber(s) ==
    \E n \in Numerals :
        s \in IntSpellings(n) \cup {"-" \o DecStr(n), DecStr(n) \o ".5", DecStr(n * 1000)}

\* C16: decoding a carrier that has run_id and workflow never raises; an
\* attempt text that is no decimal number gives attempt 1, a deadline text
\* that is no decimal number gives no deadline, and the other fields are
\* decoded as the carrier has them.
C16_MalformedFallsBack ==
    (PeerDecoded /\ Truthy(Get(baggage, "botanu.run_id")) /\ Truthy(Get(baggage, "botanu.workflow")))
      => /\ decoded[1].raised = None
         /\ decoded[1].value # Absent
         /\ (Has(baggage, "botanu.attempt") /\ ~IsDecimalNumber(baggage["botanu.attempt"]))
               => decoded[1].value[1].attempt = 1
         /\ (Has(baggage, "botanu.deadline") /\ ~IsDecimalNumber(baggage["botanu.deadline"]))
               => decoded[1].value[1].deadline = Absent
         /\ decoded[1].value[1].run_id = baggage["botanu.run_id"]
         /\ decoded[1].value[1].workflow = baggage["botanu.workflow"]
         /\ decoded[1].value[1].event_id = baggage["botanu.event_id"]
         /\ decoded[1].value[1].customer_id = baggage["botanu.customer_id"]
         /\ decoded[1].value[1].tenant_id = baggage["botanu.tenant_id"]
         /\ decoded[1].value[1].environment = baggage["botanu.environment"]
         /\ decoded[1].value[1].cancelled = (Get(baggage, "botanu.cancelled") = "True")

\* The mode an encode call ran in: the lean_mode argument, or for None the
\* process setting, lean unless BOTANU_PROPAGATION_MODE is "full".
EncodedLean ==
    IF encoded[1].lean_mode # Absent
    THEN encoded[1].lean_mode[1]
    ELSE GetOr(osenv, "BOTANU_PROPAGATION_MODE", "lean") # "full"

\* The carrier key of a field: the field's name under the fixed prefix.
Key(name) == "botanu." \o name

LeanKeys == {Key("run_id"), Key("workflow"), Key("event_id"), Key("customer_id")}

\* The keys of the full mode for the context rc, when the optional fields in
\* the set present count as present.
FullKeys(rc, present) ==
    LeanKeys \cup {Key("environment")}
        \cup {Key(n) : n \in present}
        \cup (IF rc.deadline # Absent THEN {Key("deadline")} ELSE {})
        \cup (IF rc.root_run_id # rc.run_id THEN {Key("root_run_id")} ELSE {})
        \cup (IF rc.attempt > 1 THEN {Key("attempt")} ELSE {})
        \cup (IF rc.cancelled THEN {Key("cancelled")} ELSE {})

\* Optional string fields of rc that are set (not None), and those that are
\* set to a non-empty string.
SetFields(rc) ==
    {n \in {"tenant_id", "parent_run_id", "retry_of_run_id"} :
        [tenant_id |-> rc.tenant_id, parent_run_id |-> rc.parent_run_id,
         retry_of_run_id |-> rc.retry_of_run_id][n] # None}
NonEmptyFields(rc) ==
    {n \in SetFields(rc) :
        [tenant_id |-> rc.tenant_id, parent_run_id |-> rc.parent_run_id,
         retry_of_run_id |-> rc.retry_of_run_id][n] # ""}

RetryStep == chain # <<>> /\ Len(chain') = Len(chain) + 1

\* C18: the context create_retry returns has no deadline, is not cancelled,
\* has no cancelled_at and no outcome, whatever the previous attempt's
\* deadline, cancellation and outcome are, and the previous attempts are left
\* as they were.
C18_RetryStartsClean ==
    [][RetryStep =>
          /\ Last(chain').deadline = Absent
          /\ ~Last(chain').cancelled
          /\ Last(chain').cancelled_at = Absent
          /\ Last(chain').outcome = Absent
          /\ SubSeq(chain', 1, Len(chain)) = chain]_vars

\* The first attempt had a deadline, was cancelled and completed before it
\* was retried; the retry has none of the three.
C18_Witness ==
    /\ Len(chain) = 2
    /\ chain[1].deadline # Absent
    /\ chain[1].cancelled
    /\ chain[1].cancelled_at # Absent
    /\ chain[1].outcome # Absent
    /\ chain[2].retry_of_run_id = chain[1].run_id
    /\ chain[2].deadline = Absent
    /\ ~chain[2].cancelled
    /\ chain[2].outcome = Absent

\* A step in which is_cancelled() returned a value.
QueryStep == chain # <<>> /\ queried' # queried

\* C19: is_cancelled() returns true exactly when cancellation was requested
\* or a deadline exists and the clock is past it, and a call changes no field
\* of the context.
C19_IsCancelledPure ==
    [][QueryStep =>
          /\ queried' = Some(Last(chain).cancelled
                               \/ (Last(chain).deadline # Absent /\ now > Last(chain).deadline[1]))
          /\ chain' = chain]_vars

\* A context whose deadline has passed reported is_cancelled() true while its
\* cancelled flag is false and cancelled_at is unset.
C19_Witness ==
    /\ chain # <<>>
    /\ queried = Some(TRUE)
    /\ ~Last(chain).cancelled
    /\ Last(chain).cancelled_at = Absent
    /\ Last(chain).deadline # Absent
    /\ now > Last(chain).deadline[1]

\* The keys the enricher of the recorded call is configured with.
EnrichedKeys == {baggage_keys(enriched[1].lean_mode)[i] : i \in DOMAIN baggage_keys(enriched[1].lean_mode)}

\* The carrier the recorded call read: that of the parent context when one
\* with content was passed, the ambient one otherwise.
EnrichedCarrier ==
    IF enriched[1].parent_context \in {Absent, Some(EmptyContext)}
    THEN ambient["main"].baggage
    ELSE enriched[1].parent_context[1].baggage

\* C20: on_start keeps every attribute the span already has at its value,
\* and adds an attribute only for one of its configured keys (2 in lean mode,
\* 6 in full mode) for which the carrier has a value and the span had none:
\* then the attribute is the carrier's value.
C20_EnricherNeverOverwrites ==
    (enriched # Absent) =>
        LET before == enriched[1].before.attributes
            after == enriched[1].after.attributes
        IN /\ Cardinality(EnrichedKeys) = IF enriched[1].lean_mode THEN 2 ELSE 6
           /\ \A k \in DOMAIN before : Has(after, k) /\ after[k] = before[k]
           /\ \A k \in (DOMAIN after) \ (DOMAIN before) :
                /\ k \in EnrichedKeys
                /\ Truthy(Get(EnrichedCarrier, k))
                /\ after[k] = EnrichedCarrier[k]
           /\ \A k \in EnrichedKeys :
                (Truthy(Get(EnrichedCarrier, k)) /\ ~Has(before, k)) => Has(after, k)
           /\ enriched[1].after.events = enriched[1].before.events
           /\ enriched[1].after.status = enriched[1].before.status

\* In full mode a span that already had its own botanu.run_id and
\* botanu.workflow started under a carrier with other values for both: they
\* stayed, and botanu.environment was copied from the carrier.
C20_Witness ==
    /\ enriched # Absent
    /\ ~enriched[1].lean_mode
    /\ Get(enriched[1].before.attributes, "botanu.run_id") = "existing-id"
    /\ Get(EnrichedCarrier, "botanu.run_id") = "r1"
    /\ Get(EnrichedCarrier, "botanu.workflow") = "W"
    /\ Get(enriched[1].after.attributes, "botanu.run_id") = "existing-id"
    /\ Get(enriched[1].after.attributes, "botanu.workflow") = "Mine"
    /\ Get(enriched[1].after.attributes, "botanu.environment") = "dev"

\* ------------------------------------------------------------------------
\* Bootstrap properties
\* ------------------------------------------------------------------------
\* The step is the return of a call of op (every step of the bootstrap either
\* takes a thread into the setup of enable() or returns a call).
ReturnStep(op) ==
    /\ boot' # boot
    /\ \A t \in BootThreads : boot'.pc[t] = "setup" => boot.pc[t] = "setup"
    /\ boot'.last[1].op = op

\* C21: over any sequence of enable() and disable() calls, at most one
\* RunContextEnricher is registered on the process's tracer provider.
C21_OneEnricherRegistered == boot.provider.enrichers <= 1

C22_EnricherAbsorbsFailures ==
    enriched # Absent /\ enriched[1].fault # "none" => enriched[1].raised = None

\* ------------------------------------------------------------------------
\* Ledger properties
\* ------------------------------------------------------------------------
\* The event.name the specification gives for each emission operation.
EventNameOf(op) ==
    CASE op = "attempt_started" -> "attempt.started"
      [] op = "attempt_ended" -> "attempt.ended"
      [] op = "llm_attempted" -> "llm.attempted"
      [] op = "tool_attempted" -> "tool.attempted"
      [] op = "cancel_requested" -> "cancellation.requested"
      [] op = "cancel_acknowledged" -> "cancellation.acknowledged"
      [] op = "zombie_detected" -> "zombie.detected"
      [] op = "redelivery_detected" -> "redelivery.detected"
      [] OTHER -> None

\* The last call on the ledger was one of the eight emission operations.
EmissionCalled == lcall # Absent /\ EventNameOf(lcall[1].op) # None

\* C23: each of the eight emission operations returns normally, without
\* raising, both on an uninitialized ledger and when the sink's emit fails.
C23_EmissionNeverRaises ==
    EmissionCalled => lcall[1].raised = None /\ lcall[1].returned = "None"

\* An emission on an initialized ledger whose sink failed has returned.
C23_Witness ==
    /\ EmissionCalled
    /\ ledger.initialized
    /\ lcall[1].failed
    /\ lcall[1].raised = None
    /\ lcall[1].op = "zombie_detected"

\* The records handed to the sink before the step are still there, unchanged
\* and in the same order.
AppendOnly ==
    /\ Len(ledger'.sink) >= Len(ledger.sink)
    /\ SubSeq(ledger'.sink, 1, Len(ledger.sink)) = ledger.sink

\* The step hands exactly one record to the sink, named after the operation
\* just called.
OneRecordHanded ==
    /\ Len(ledger'.sink) = Len(ledger.sink) + 1
    /\ ledger'.sink[Len(ledger'.sink)].name = EventNameOf(lcall'[1].op)

\* C24 as stated: every call of an emission operation hands exactly one
\* record with the matching event.name to the sink, whatever the sampling
\* decision for the current span, and no ledger operation modifies or removes
\* an earlier record.
C24_AlwaysEmitsAppendOnly ==
    [][lcall' # lcall
        => /\ AppendOnly
           /\ IF EventNameOf(lcall'[1].op) # None
              THEN OneRecordHanded
              ELSE ledger'.sink = ledger.sink]_vars

\* C24, amended: every call of an emission operation on an initialized
\* ledger hands exactly one record with the matching event.name to the sink,
\* whatever the sampling decision for the current span; on an uninitialized
\* ledger it hands nothing; no ledger operation modifies or removes an
\* earlier record.
C24_InitializedEmitsAppendOnly ==
    [][lcall' # lcall
        => /\ AppendOnly
           /\ IF EventNameOf(lcall'[1].op) # None /\ ledger.initialized
              THEN OneRecordHanded
              ELSE ledger'.sink = ledger.sink]_vars

\* A record has been emitted under an unsampled span, after another one.
C24_Witness ==
    /\ EmissionCalled
    /\ lcall[1].span = "unsampled"
    /\ Len(ledger.sink) = 2
    /\ ledger.sink[1].name = "attempt.started"
    /\ ledger.sink[2].name = "cancellation.acknowledged"

\* C27: flush and shutdown never raise and each returns a boolean; on an
\* uninitialized ledger flush returns True; a failure of the provider's
\* flush or shutdown is reported through the returned boolean.
C27_FlushShutdownReturnBoolean ==
    lcall # Absent /\ lcall[1].op \in {"flush", "shutdown"}
        => /\ lcall[1].raised = None
           /\ lcall[1].returned \in {"True", "False"}
           /\ ~ledger.initialized /\ lcall[1].op = "flush" => lcall[1].returned = "True"
           /\ lcall[1].failed => lcall[1].returned = "False"

\* ------------------------------------------------------------------------
\* Global ledger properties
\* ------------------------------------------------------------------------
\* The step is the return of a get_ledger() call (made directly or by a
\* record_* function).
GetLedgerReturned == registry'.returns = registry.returns + 1

\* The ledger the get_ledger() call returning in this step returns.
Returned == registry'.got[registry'.caller]

\* C25: after set_ledger(L) every get_ledger() returns L until the next
\* set_ledger; while nothing has been set every get_ledger() returns the
\* same default instance; each record_* function calls its method on the
\* instance get_ledger() returns at the time of the call, and on no other.
C25_GlobalLedgerReplaceable ==
    [][/\ registry.cache # Absent => registry'.cache = registry.cache
       /\ GetLedgerReturned
            => /\ Returned = IF registry.lastSet # Absent
                             THEN registry.lastSet[1]
                             ELSE registry'.cache[1]
               /\ LET m == registry'.mode[registry'.caller]
                  IN IF m = "get"
                     THEN registry'.received = registry.received
                     ELSE /\ registry'.received[Returned] =
                                Append(GetOr(registry.received, Returned, <<>>), m)
                          /\ \A i \in DOMAIN registry.received :
                                i # Returned => registry'.received[i] = registry.received[i]]_vars

\* set_ledger has replaced an earlier ledger, and a record_* function has
\* forwarded its call to the replacement.
C25_Witness ==
    /\ registry.lastSet = Some("L2")
    /\ registry.global = "L2"
    /\ registry.got["th1"] = "L2"
    /\ Has(registry.received, "L2")
    /\ registry.received["L2"] = <<"llm_attempted">>
    /\ registry.calls = 3

\* C26: with no ledger set, concurrent get_ledger() calls construct at most
\* one default AttemptLedger and all obtain that instance; a get_ledger()
\* concurrent with set_ledger(L) returns the previous instance or L.
C26_ConcurrentAccessSafe ==
    /\ registry.made <= 1
    /\ \A t \in BootThreads :
          registry.got[t] \in {None, "L1", "L2"} \cup {registry.cache[i] : i \in DOMAIN registry.cache}

\* ------------------------------------------------------------------------
\* Middleware properties
\* ------------------------------------------------------------------------
\* C30: when dispatch has finished, by a response or by an exception, every
\* context it attached has been detached and the ambient carrier is the one
\* from before the request; while a request is handled, the run_id of an
\* earlier request is not ambient.
C30_NoCarrierLeakBetweenRequests ==
    served # Absent
        => /\ served[1].pc = "done"
                => /\ ambient["main"] = served[1].before
                   /\ Len(attached["main"]) = served[1].tokens
           /\ served[1].n > 1 => ~Truthy(get_baggage(served[1].before, "botanu.run_id"))

\* C35: every context from_baggage returns has a positive attempt number,
\* whatever the carrier holds under botanu.attempt ("0" and negative numbers
\* included).
C35_DecodedAttemptPositive ==
    (PeerDecoded /\ decoded[1].value # Absent) => decoded[1].value[1].attempt >= 1

\* C37: when on_start is given a parent context, every attribute it adds to
\* the span is the value the parent context's carrier has for that key, and
\* nothing is taken from the ambient context; a span started with an empty
\* parent context receives no attribute at all, also while a run is ambient.
C37_ParentContextNotAmbient ==
    (enriched # Absent /\ enriched[1].parent_context # Absent) =>
        \A k \in (DOMAIN enriched[1].after.attributes) \ (DOMAIN enriched[1].before.attributes) :
            /\ Has(enriched[1].parent_context[1].baggage, k)
            /\ enriched[1].after.attributes[k] = enriched[1].parent_context[1].baggage[k]

\* C36: whenever no enable() or disable() call is in progress, get_config()
\* is non-None only if is_enabled() is True; and after an enable() call whose
\* setup failed (it returned False from the uninitialized state)
\* is_enabled() is False and get_config() is None.
C36_BootstrapStateConsistent ==
    (\A t \in BootThreads : boot.pc[t] = "idle") =>
        /\ boot.config # None => boot.initialized
        /\ (/\ boot.last # Absent
            /\ boot.last[1].op = "enable"
            /\ boot.last[1].outcome \in {"fails_before_registering", "fails_after_registering"})
              => (~boot.initialized /\ boot.config = None)

\* ------------------------------------------------------------------------
\* Outcome properties
\* ------------------------------------------------------------------------
\* C34: a scope entered with auto_outcome_on_success = False whose wrapped
\* code returns normally without having set an outcome records no success:
\* the run context has no outcome and the span's botanu.outcome.status is
\* not "success".
C34_NoAutoSuccessWhenDisabled ==
    \A c \in Contexts :
        (LeftBy(c, "return") /\ ~Top(c).auto /\ Top(c).explicit = None /\ Top(c).emitted = None) =>
            /\ Top(c).run_ctx[1].outcome = Absent
            /\ Get(Top(c).span[1].attributes, "botanu.outcome.status") # SUCCESS

\* C32: a call of emit_outcome(status) with a valid status sets the current
\* span's botanu.outcome.status to status and adds exactly one
\* botanu.outcome_emitted event, which carries the status.
C32_EmitOutcomeSetsStatus ==
    [][\A c \in Contexts :
        (/\ Len(stack'[c]) = Len(stack[c])
         /\ Running(c)
         /\ EventsNamed(Top(c).span[1], "botanu.outcome_emitted")
              # EventsNamed(stack'[c][Len(stack'[c])].span[1], "botanu.outcome_emitted"))
          => LET span == stack'[c][Len(stack'[c])].span[1]
                 status == stack'[c][Len(stack'[c])].emitted
             IN /\ Cardinality(EventsNamed(span, "botanu.outcome_emitted"))
                     = Cardinality(EventsNamed(Top(c).span[1], "botanu.outcome_emitted")) + 1
                /\ span.events[Len(span.events)].attributes["status"] = status
                /\ Get(span.attributes, "botanu.outcome.status") = status]_vars

\* ------------------------------------------------------------------------
\* Identity generator properties
\* ------------------------------------------------------------------------
\* The position of a character in the order Python compares str by (code
\* points): "-" comes before the digits, the digits before the letters.
CodePointRank(ch) ==
    IF ch = "-" THEN 0 ELSE CHOOSE i \in 1..16 : HexDigit[i] = ch

\* a < b for two str of the same length, given as character sequences
StrLess(a, b) ==
    \E i \in 1..Len(a) :
        /\ \A j \in 1..(i - 1) : a[j] = b[j]
        /\ CodePointRank(a[i]) < CodePointRank(b[i])

\* C33: of two identifiers generated at clock readings t1 < t2, both below
\* 2^48 milliseconds, the first is smaller than the second as a str,
\* whatever the random bytes are; and every identifier is 36 characters
\* long with the hyphens in the canonical places, the version digit 7
\* (character 15) and a variant digit 8, 9, a or b (character 20).
C33_RunIdsSortByTime ==
    /\ \A i \in DOMAIN generated, j \in DOMAIN generated :
          (/\ TimestampLess(generated[i].timestamp_ms, generated[j].timestamp_ms)
           /\ generated[j].timestamp_ms.hi < 16777216)
            => StrLess(generated[i].id, generated[j].id)
    /\ \A i \in DOMAIN generated :
          /\ Len(generated[i].id) = 36
          /\ \A p \in {9, 14, 19, 24} : generated[i].id[p] = "-"
          /\ generated[i].id[15] = "7"
          /\ generated[i].id[20] \in {"8", "9", "a", "b"}

\* Two identifiers were generated one millisecond apart across a byte
\* boundary of the clock reading, the earlier one with the largest random
\* bytes and the later one with the smallest.
C33_Witness ==
    /\ Len(generated) = 2
    /\ generated[1].timestamp_ms = [hi |-> 106700, lo |-> 65535]
    /\ generated[2].timestamp_ms = [hi |-> 106700, lo |-> 65536]
    /\ generated[1].id[35] = "f"
    /\ generated[2].id[35] = "0"
    /\ StrLess(generated[1].id, generated[2].id)

\* ------------------------------------------------------------------------
\* Outcome decorator properties
\* ------------------------------------------------------------------------
\* C39: when emit_outcome was called on the current span before a function
\* wrapped by botanu_outcome returned normally, the wrapper emits nothing
\* more: the span has the events it had when the function returned and its
\* outcome is the one emitted first; when the function raises, the wrapper
\* emits "failed" with the error's class name as reason and the error
\* reaches the caller.
C39_OutcomeDecoratorKeepsFirst ==
    (decorated # Absent /\ decorated[1].pc = "done") =>
        LET d == decorated[1]
        IN /\ (d.exit = "return" /\ d.first # None)
                => /\ d.span.events = d.at_exit.events
                   /\ Get(d.span.attributes, "botanu.outcome") = d.first
           /\ d.exit = "raise"
                => /\ Len(d.span.events) = Len(d.at_exit.events) + 1
                   /\ d.span.events[Len(d.span.events)].name = "botanu.outcome_emitted"
                   /\ d.span.events[Len(d.span.events)].attributes["status"] = "failed"
                   /\ Get(d.span.attributes, "botanu.outcome.reason") = d.raised
                   /\ d.exc = d.raised

\* ------------------------------------------------------------------------
\* Tracker scope properties
\* ------------------------------------------------------------------------
\* C31: the span of a track_llm_call scope that ran inside attempt k of a
\* retry loop with botanu_before as its before callback carries
\* botanu.request.attempt = k although the body did not call set_attempt;
\* and the span of a scope that ran outside any loop, after botanu_after_all
\* ran at the end of a loop, does not carry that loop's last attempt number.
C31_AttemptStampedFromRetryLoop ==
    (track.last # Absent /\ track.last[1].tracker.kind = "llm"
        /\ ~track.last[1].tracker.set_attempt_called) =>
        LET l == track.last[1]
            attributes == l.tracker.span.attributes
        IN /\ l.loop > 0
                => /\ Has(attributes, "botanu.request.attempt")
                   /\ attributes["botanu.request.attempt"] = l.loop
           /\ (l.loop = 0 /\ l.after_ran)
                => ~(/\ Has(attributes, "botanu.request.attempt")
                     /\ attributes["botanu.request.attempt"] = l.finished)

\* A tracker scope is closed by the step.
ScopeClosed == track.open # Absent /\ track'.open = Absent

\* By the step the counter of the closed scope's kind went up by exactly 1,
\* under one status, and the other kind's counter stayed.
CountedOnce ==
    LET kind == track.open[1].kind
    IN /\ track'.counter[kind]["success"] + track'.counter[kind]["error"]
            = track.counter[kind]["success"] + track.counter[kind]["error"] + 1
       /\ \A s \in {"success", "error"} : track'.counter[kind][s] >= track.counter[kind][s]
       /\ \A other \in {"llm", "tool"} \ {kind} : track'.counter[other] = track.counter[other]

\* The error the body raised is on the closed scope's span and reached the
\* caller.
ErrorRecordedAndRaised ==
    LET l == track'.last[1]
    IN /\ l.tracker.span.status = "ERROR"
       /\ Get(l.tracker.span.attributes, "error.type") = l.raised
       /\ \E i \in EventsNamed(l.tracker.span, "exception") :
             l.tracker.span.events[i].attributes["exception.type"] = l.raised
       /\ l.exc = l.raised

\* C38 as stated: whenever a track_llm_call or track_tool_call scope is
\* left, _finalize has run exactly once and the counter went up by exactly
\* 1; when the body returned or raised an error, under the status "error"
\* if and only if it raised; an error the body raised is recorded on the
\* span and re-raised unchanged.
C38_FinalizedOnceErrorIffRaised ==
    [][ScopeClosed =>
        /\ track'.last[1].tracker.finalized = 1
        /\ CountedOnce
        /\ track'.last[1].exit \in {"return", "raise"}
              => ((track'.counter[track.open[1].kind]["error"] = track.counter[track.open[1].kind]["error"] + 1)
                    <=> track'.last[1].exit = "raise")
        /\ track'.last[1].exit = "raise" => ErrorRecordedAndRaised]_vars

\* C38, amended: whenever a scope is left - by return, by an error or by
\* cancellation - _finalize has run exactly once and the counter went up by
\* exactly 1, under the status "error" if and only if an error was recorded
\* on the tracker: by the scope because the body raised an Exception, or by
\* the body calling set_error itself; otherwise, also for a cancellation,
\* under "success". An Exception the body raised is recorded on the span and
\* re-raised unchanged.
C38_FinalizedOnceErrorIffRecorded ==
    [][ScopeClosed =>
        /\ track'.last[1].tracker.finalized = 1
        /\ CountedOnce
        /\ (track'.counter[track.open[1].kind]["error"] = track.counter[track.open[1].kind]["error"] + 1)
              <=> (track'.last[1].exit = "raise" \/ Truthy(track.open[1].error_type))
        /\ track'.last[1].exit = "raise" => ErrorRecordedAndRaised]_vars

\* A tool scope whose body raised ValueError was closed after an llm scope
\* had been counted as a success: the tool counter has one error.
C38_Witness ==
    /\ track.last # Absent
    /\ track.last[1].tracker.kind = "tool"
    /\ track.last[1].exit = "raise"
    /\ track.last[1].raised = "ValueError"
    /\ track.last[1].tracker.finalized = 1
    /\ track.counter["tool"]["error"] = 1
    /\ track.counter["llm"]["success"] = 1

====
